---- MODULE Spec2Model ----
(***************************************************************************)
(* ScAIm (Firefox): the scoring aggregator, the domain lists, the content  *)
(* script orchestrator (ScaimAnalyzer / ScaimBanner) and the social post   *)
(* scanner, modelled as state machines.                                    *)
(***************************************************************************)
EXTENDS Integers, Sequences, FiniteSets, TLC

(***************************************************************************)
(* State of the scoring aggregator's callers                               *)
(***************************************************************************)
VARIABLES
  aggIn, aggOut,                  \* one aggregate() call: argument and result
  aggPrev                         \* the first aggregate() call and the calls since


Null == "null"

(***************************************************************************)
(* Bounds                                                                  *)
(***************************************************************************)
\* detector scores are drawn from the multiples of ScoreStep in 0..100
ScoreStep == 25
\* at most MaxActive detectors report something in one aggregate() input
MaxActive == 2

(***************************************************************************)
(* IEEE-754 double arithmetic on the values aggregate() computes.          *)
(* Every weight is a double whose last mantissa bit is worth at least      *)
(* 2^-56, so every product score*weight and every partial sum is an        *)
(* integer number of units of 2^-56 below 2^63.  Such a number is kept as  *)
(* four limbs of 16 bits, least significant first.                         *)
(***************************************************************************)
Base == 65536

Pow2(n) == IF n = 0 THEN 1 ELSE IF n = 1 THEN 2 ELSE IF n = 2 THEN 4
           ELSE IF n = 3 THEN 8 ELSE IF n = 4 THEN 16 ELSE IF n = 5 THEN 32
           ELSE IF n = 6 THEN 64 ELSE IF n = 7 THEN 128 ELSE IF n = 8 THEN 256
           ELSE IF n = 9 THEN 512 ELSE IF n = 10 THEN 1024 ELSE 2048

BigZero == <<0, 0, 0, 0>>

\* a + b, exact
BigAdd(a, b) ==
  LET s0 == a[1] + b[1]
      s1 == a[2] + b[2] + (s0 \div Base)
      s2 == a[3] + b[3] + (s1 \div Base)
      s3 == a[4] + b[4] + (s2 \div Base)
  IN  <<s0 % Base, s1 % Base, s2 % Base, s3>>

\* a * k for a small natural k, exact
BigMulSmall(a, k) ==
  LET p0 == a[1] * k
      p1 == a[2] * k + (p0 \div Base)
      p2 == a[3] * k + (p1 \div Base)
      p3 == a[4] * k + (p2 \div Base)
  IN  <<p0 % Base, p1 % Base, p2 % Base, p3>>

\* floor(a / d) and a mod d for a small d
BigDivSmall(a, d) ==
  LET q3 == a[4] \div d
      r3 == a[4] % d
      q2 == (r3 * Base + a[3]) \div d
      r2 == (r3 * Base + a[3]) % d
      q1 == (r2 * Base + a[2]) \div d
      r1 == (r2 * Base + a[2]) % d
      q0 == (r1 * Base + a[1]) \div d
      r0 == (r1 * Base + a[1]) % d
  IN  [quot |-> <<q0, q1, q2, q3>>, rem |-> r0]

\* number of significant bits of a natural below 2^16
RECURSIVE BitLenSmall(_)
BitLenSmall(n) == IF n = 0 THEN 0 ELSE 1 + BitLenSmall(n \div 2)

\* number of significant bits of a limb number
BitLen(a) ==
  IF a[4] # 0 THEN 48 + BitLenSmall(a[4])
  ELSE IF a[3] # 0 THEN 32 + BitLenSmall(a[3])
  ELSE IF a[2] # 0 THEN 16 + BitLenSmall(a[2])
  ELSE BitLenSmall(a[1])

\* round to nearest, ties to even, to a 53-bit significand
RoundDouble(a) ==
  LET len == BitLen(a)
  IN  IF len <= 53 THEN a
      ELSE LET s    == len - 53
               d    == BigDivSmall(a, Pow2(s))
               half == Pow2(s - 1)
               up   == \/ d.rem > half
                       \/ d.rem = half /\ d.quot[1] % 2 = 1
               q    == IF up THEN BigAdd(d.quot, <<1, 0, 0, 0>>) ELSE d.quot
           IN  BigMulSmall(q, Pow2(s))

\* the double product  score * weight  (score an integer 0..100)
FMul(score, w) == RoundDouble(BigMulSmall(w, score))

\* the double sum  a + b
FAdd(a, b) == RoundDouble(BigAdd(a, b))

\* Math.ceil of a value held in units of 2^-56
FCeil(a) ==
  (a[4] \div 256)
    + (IF a[4] % 256 # 0 \/ a[3] # 0 \/ a[2] # 0 \/ a[1] # 0 THEN 1 ELSE 0)

(***************************************************************************)
(* ScaimScoring                                                            *)
(***************************************************************************)
DETECTORS == <<"keywords", "structural", "phishing", "socialEngineering",
               "fakeEcommerce", "cryptoScam", "techSupport", "romanceFee",
               "maliciousDownload">>

DetectorNames == {DETECTORS[i] : i \in 1..Len(DETECTORS)}

\* WEIGHTS in hundredths, as the source text writes them (0.18, 0.14, ...)
WEIGHTS ==
  [keywords |-> 18, structural |-> 14, phishing |-> 14,
   socialEngineering |-> 10, fakeEcommerce |-> 10, cryptoScam |-> 10,
   techSupport |-> 8, romanceFee |-> 8, maliciousDownload |-> 8]

\* the double nearest to each weight literal, in units of 2^-56:
\*   0.18 = 0x1.70a3d70a3d70ap-3    0.14 = 0x1.1eb851eb851ecp-3
\*   0.10 = 0x1.999999999999ap-4    0.08 = 0x1.47ae147ae147bp-4
WeightDouble(pct) ==
  IF pct = 18 THEN <<44564, 57671, 5242, 46>>
  ELSE IF pct = 14 THEN <<41944, 15728, 55050, 35>>
  ELSE IF pct = 10 THEN <<39322, 39321, 39321, 25>>
  ELSE <<5243, 18350, 31457, 20>>

THRESHOLDS == [safe |-> 15, caution |-> 40, warning |-> 65, danger |-> 100]

LEVELS == [SAFE |-> "safe", CAUTION |-> "caution", WARNING |-> "warning",
           DANGER |-> "danger"]

CRITICAL_ESCALATION_CATEGORIES ==
  {"External Form Action", "Href Spoofing", "Homoglyph Domain",
   "IP Address URL", "Obfuscated Code", "Seed Phrase Theft",
   "Wallet Impersonation", "Remote Access Tool", "BSOD Simulation",
   "Dangerous File Download", "Disguised File Extension",
   "Advance Fee Fraud", "419 Advance Fee Scam"}

_getLevel(score) ==
  IF score <= THRESHOLDS.safe THEN LEVELS.SAFE
  ELSE IF score <= THRESHOLDS.caution THEN LEVELS.CAUTION
  ELSE IF score <= THRESHOLDS.warning THEN LEVELS.WARNING
  ELSE LEVELS.DANGER

\* severityOrder[f.severity] ?? 4
severityOrder(sev) ==
  IF sev = "critical" THEN 0 ELSE IF sev = "high" THEN 1
  ELSE IF sev = "medium" THEN 2 ELSE IF sev = "low" THEN 3 ELSE 4

\* Array.prototype.sort with the severity comparator: stable
SortBySeverity(fs) ==
  LET Rank(r) == SelectSeq(fs, LAMBDA f : severityOrder(f.severity) = r)
  IN  Rank(0) \o Rank(1) \o Rank(2) \o Rank(3) \o Rank(4)

\* the weighted sum, accumulated in WEIGHTS key order, as a double
RECURSIVE WeightedSum(_, _)
WeightedSum(results, n) ==
  IF n = 0 THEN BigZero
  ELSE FAdd(WeightedSum(results, n - 1),
            FMul(results[DETECTORS[n]].score,
                 WeightDouble(WEIGHTS[DETECTORS[n]])))

\* allFindings kept from the call before instead of starting empty
RECURSIVE CollectFindingsKept(_, _)
CollectFindingsKept(results, n) ==
  IF n = 0 THEN aggOut.findings
  ELSE CollectFindingsKept(results, n - 1) \o results[DETECTORS[n]].findings

\* allFindings: every detector's findings, in key order
RECURSIVE CollectFindings(_, _)
CollectFindings(results, n) ==
  IF n = 0 THEN <<>>
  ELSE CollectFindings(results, n - 1) \o results[DETECTORS[n]].findings

\* HasCritical with the category list forgotten
HasCriticalSeverityOnly(fs) ==
  \E i \in 1..Len(fs) : fs[i].severity = "critical"

HasCritical(fs) ==
  \E i \in 1..Len(fs) :
     \/ fs[i].severity = "critical"
     \/ fs[i].category \in CRITICAL_ESCALATION_CATEGORIES

Min(a, b) == IF a < b THEN a ELSE b
Max(a, b) == IF a > b THEN a ELSE b

\* _generateSummary: the level-specific sentence, parameterised by the count
_generateSummary(level, score, fs) ==
  IF level = LEVELS.SAFE
  THEN (IF Len(fs) > 0 THEN [text |-> "minor observations", count |-> Len(fs)]
        ELSE [text |-> "no concerns", count |-> 0])
  ELSE [text |-> level, count |-> Len(fs)]

aggregate(results) ==
  LET rounded     == FCeil(WeightedSum(results, Len(DETECTORS)))
      allFindings == CollectFindings(results, Len(DETECTORS))
      escalated   == IF HasCritical(allFindings)
                        /\ rounded < THRESHOLDS.caution + 1
                     THEN THRESHOLDS.caution + 1 ELSE rounded
      clamped     == Min(100, Max(0, escalated))
      level       == _getLevel(clamped)
      sorted      == SortBySeverity(allFindings)
  IN  [level |-> level, score |-> clamped, findings |-> sorted,
       summary |-> _generateSummary(level, clamped, sorted)]

(***************************************************************************)
(* Strings                                                                 *)
(***************************************************************************)
CharAt(s, i) == SubSeq(s, i, i)

UpperChars == "ABCDEFGHIJKLMNOPQRSTUVWXYZ"
LowerChars == "abcdefghijklmnopqrstuvwxyz"
DigitChars == "0123456789"

InChars(c, chars) == \E i \in 1..Len(chars) : CharAt(chars, i) = c

LowerOf == [c \in {CharAt(UpperChars, i) : i \in 1..26} |->
              CharAt(LowerChars,
                     CHOOSE i \in 1..26 : CharAt(UpperChars, i) = c)]

\* String.prototype.toLowerCase, over ASCII
RECURSIVE toLowerCase(_)
toLowerCase(s) ==
  IF Len(s) = 0 THEN ""
  ELSE LET c == CharAt(s, 1)
       IN  (IF c \in DOMAIN LowerOf THEN LowerOf[c] ELSE c)
             \o toLowerCase(SubSeq(s, 2, Len(s)))

\* String.prototype.split(".")
RECURSIVE SplitDots(_, _)
SplitDots(s, cur) ==
  IF Len(s) = 0 THEN <<cur>>
  ELSE IF CharAt(s, 1) = "."
       THEN <<cur>> \o SplitDots(SubSeq(s, 2, Len(s)), "")
       ELSE SplitDots(SubSeq(s, 2, Len(s)), cur \o CharAt(s, 1))

split(s) == SplitDots(s, "")

\* parts.slice(i).join(".")  (i counted from 0 as in the source)
RECURSIVE SliceJoin(_, _)
SliceJoin(parts, i) ==
  IF i + 1 > Len(parts) THEN ""
  ELSE IF i + 1 = Len(parts) THEN parts[i + 1]
  ELSE parts[i + 1] \o "." \o SliceJoin(parts, i + 1)

\* String.prototype.includes
includes(s, pat) ==
  \E i \in 1..(Len(s) - Len(pat) + 1) : SubSeq(s, i, i + Len(pat) - 1) = pat

startsWith(s, pre) == Len(s) >= Len(pre) /\ SubSeq(s, 1, Len(pre)) = pre
endsWith(s, suf) ==
  Len(s) >= Len(suf) /\ SubSeq(s, Len(s) - Len(suf) + 1, Len(s)) = suf

\* the character class [a-z0-9-]+ under the /i flag
IsHostLabel(s) ==
  /\ Len(s) > 0
  /\ \A i \in 1..Len(s) :
        \/ InChars(CharAt(s, i), LowerChars)
        \/ InChars(CharAt(s, i), UpperChars)
        \/ InChars(CharAt(s, i), DigitChars)
        \/ CharAt(s, i) = "-"

(***************************************************************************)
(* DomainLists                                                             *)
(***************************************************************************)
BUILTIN_BLOCKLIST ==
  <<
    [pattern |-> "microsoftsupport-help", category |-> "Tech Support Scam"],
    [pattern |-> "windows-error-fix", category |-> "Tech Support Scam"],
    [pattern |-> "apple-security-alert", category |-> "Tech Support Scam"],
    [pattern |-> "virus-removal-help", category |-> "Tech Support Scam"],
    [pattern |-> "pc-fix-now", category |-> "Tech Support Scam"],
    [pattern |-> "tech-support-help", category |-> "Tech Support Scam"],
    [pattern |-> "computer-fix-online", category |-> "Tech Support Scam"],
    [pattern |-> "geeksquad-renewal", category |-> "Tech Support Scam"],
    [pattern |-> "norton-renewal-alert", category |-> "Tech Support Scam"],
    [pattern |-> "mcafee-renewal-alert", category |-> "Tech Support Scam"],
    [pattern |-> "antivirus-renew", category |-> "Tech Support Scam"],
    [pattern |-> "security-alert-warning", category |-> "Tech Support Scam"],
    [pattern |-> "crypto-doubler", category |-> "Crypto Scam"],
    [pattern |-> "bitcoin-doubler", category |-> "Crypto Scam"],
    [pattern |-> "eth-giveaway", category |-> "Crypto Scam"],
    [pattern |-> "crypto-giveaway", category |-> "Crypto Scam"],
    [pattern |-> "free-bitcoin-mine", category |-> "Crypto Scam"],
    [pattern |-> "elonmusk-giveaway", category |-> "Crypto Scam"],
    [pattern |-> "tesla-token", category |-> "Crypto Scam"],
    [pattern |-> "metmask-", category |-> "Crypto Scam"],
    [pattern |-> "metamsk-", category |-> "Crypto Scam"],
    [pattern |-> "metamask-verify", category |-> "Crypto Scam"],
    [pattern |-> "metamask-update", category |-> "Crypto Scam"],
    [pattern |-> "trustwallet-verify", category |-> "Crypto Scam"],
    [pattern |-> "pancakeswap-airdrop", category |-> "Crypto Scam"],
    [pattern |-> "uniswap-airdrop", category |-> "Crypto Scam"],
    [pattern |-> "defi-yield-farm", category |-> "Crypto Scam"],
    [pattern |-> "paypal-verify-account", category |-> "Phishing"],
    [pattern |-> "paypal-secure-login", category |-> "Phishing"],
    [pattern |-> "amazon-verify-order", category |-> "Phishing"],
    [pattern |-> "amazon-security-alert", category |-> "Phishing"],
    [pattern |-> "netflix-update-payment", category |-> "Phishing"],
    [pattern |-> "netflix-billing-update", category |-> "Phishing"],
    [pattern |-> "apple-id-verify", category |-> "Phishing"],
    [pattern |-> "icloud-verify", category |-> "Phishing"],
    [pattern |-> "chase-verify-account", category |-> "Phishing"],
    [pattern |-> "wellsfargo-secure-login", category |-> "Phishing"],
    [pattern |-> "bankofamerica-alert", category |-> "Phishing"],
    [pattern |-> "usps-delivery-update", category |-> "Phishing"],
    [pattern |-> "fedex-delivery-notice", category |-> "Phishing"],
    [pattern |-> "dhl-tracking-update", category |-> "Phishing"],
    [pattern |-> "ups-delivery-confirm", category |-> "Phishing"],
    [pattern |-> "super-deals-store", category |-> "Fake Shopping"],
    [pattern |-> "mega-discount-shop", category |-> "Fake Shopping"],
    [pattern |-> "cheap-brand-outlet", category |-> "Fake Shopping"],
    [pattern |-> "designer-replica-", category |-> "Fake Shopping"],
    [pattern |-> "luxury-outlet-sale", category |-> "Fake Shopping"],
    [pattern |-> "official-store-sale", category |-> "Fake Shopping"],
    [pattern |-> "free-gift-survey", category |-> "Survey Scam"],
    [pattern |-> "prize-winner-claim", category |-> "Survey Scam"],
    [pattern |-> "reward-survey-now", category |-> "Survey Scam"],
    [pattern |-> "lucky-winner-today", category |-> "Survey Scam"],
    [pattern |-> "spin-wheel-prize", category |-> "Survey Scam"],
    [pattern |-> "flash-player-update", category |-> "Fake Download"],
    [pattern |-> "java-update-required", category |-> "Fake Download"],
    [pattern |-> "browser-update-now", category |-> "Fake Download"],
    [pattern |-> "codec-download-free", category |-> "Fake Download"],
    [pattern |-> "font-download-missing", category |-> "Fake Download"],
    [pattern |-> "guaranteed-returns-", category |-> "Investment Scam"],
    [pattern |-> "forex-profit-daily", category |-> "Investment Scam"],
    [pattern |-> "binary-option-profit", category |-> "Investment Scam"],
    [pattern |-> "passive-income-bot", category |-> "Investment Scam"],
    [pattern |-> "trading-bot-profit", category |-> "Investment Scam"]
  >>

SuspiciousTlds ==
  {"xyz", "top", "club", "buzz", "tk", "ml", "ga", "cf", "gq", "icu"}

BrandNames ==
  {"paypal", "amazon", "apple", "microsoft", "google", "netflix", "chase",
   "wellsfargo", "bankofamerica"}

CredentialPrefixes ==
  {"login", "secure", "verify", "update", "account", "billing", "confirm"}

\* /^[a-z0-9-]+(brand)\.[a-z0-9-]+\.(tld)$/i
BrandTldPattern(hostname) ==
  LET parts == split(toLowerCase(hostname))
  IN  /\ Len(parts) = 3
      /\ IsHostLabel(parts[1]) /\ IsHostLabel(parts[2])
      /\ parts[3] \in SuspiciousTlds
      /\ \E b \in BrandNames :
            endsWith(parts[1], b) /\ Len(parts[1]) > Len(b)

\* /^(login|secure|...)-?[a-z0-9-]+\.(tld)$/i
CredentialTldPattern(hostname) ==
  LET parts == split(toLowerCase(hostname))
  IN  /\ Len(parts) = 2
      /\ IsHostLabel(parts[1])
      /\ parts[2] \in SuspiciousTlds
      /\ \E p \in CredentialPrefixes :
            startsWith(parts[1], p) /\ Len(parts[1]) > Len(p)

SHARED_HOSTING ==
  {"github.io", "gitlab.io", "netlify.app", "netlify.com", "vercel.app",
   "pages.dev", "herokuapp.com", "fly.dev", "railway.app", "render.com",
   "surge.sh", "firebaseapp.com", "web.app", "azurewebsites.net",
   "cloudfront.net", "amazonaws.com", "blogspot.com", "wordpress.com",
   "wixsite.com", "squarespace.com", "webflow.io", "carrd.co",
   "replit.dev", "glitch.me", "codepen.io"}

\* the parent-domain loop without the shared-hosting stop
RECURSIVE ParentLoopNoShared(_, _, _)
ParentLoopNoShared(allow, parts, i) ==
  IF ~(i < Len(parts) - 1) THEN FALSE
  ELSE IF SliceJoin(parts, i) \in allow THEN TRUE
  ELSE ParentLoopNoShared(allow, parts, i + 1)

\* the parent-domain loop of isAllowed: for (i = from; i < parts.length - 1; i++)
RECURSIVE ParentLoop(_, _, _)
ParentLoop(allow, parts, i) ==
  IF ~(i < Len(parts) - 1) THEN FALSE
  ELSE LET parent == SliceJoin(parts, i)
       IN  IF parent \in SHARED_HOSTING THEN FALSE
           ELSE IF parent \in allow THEN TRUE
           ELSE ParentLoop(allow, parts, i + 1)

isAllowedIn(allow, hostname0) ==
  LET hostname == toLowerCase(hostname0)
  IN  IF hostname \in allow THEN TRUE
      ELSE ParentLoop(allow, split(hostname), 1)

NoMatch == [source |-> "none", category |-> "none"]

RECURSIVE BuiltinMatch(_, _)
BuiltinMatch(hostname, n) ==
  IF n > Len(BUILTIN_BLOCKLIST)
  THEN (IF BrandTldPattern(hostname)
        THEN [source |-> "builtin",
              category |-> "Phishing (Brand + Suspicious TLD)"]
        ELSE IF CredentialTldPattern(hostname)
        THEN [source |-> "builtin",
              category |-> "Phishing (Credential Harvesting TLD)"]
        ELSE NoMatch)
  ELSE IF includes(hostname, BUILTIN_BLOCKLIST[n].pattern)
       THEN [source |-> "builtin", category |-> BUILTIN_BLOCKLIST[n].category]
       ELSE BuiltinMatch(hostname, n + 1)

\* isBlocked: the match, or NoMatch for null
isBlockedIn(block, hostname0) ==
  LET hostname == toLowerCase(hostname0)
  IN  IF hostname \in block
      THEN [source |-> "user", category |-> "User Blocklist"]
      ELSE BuiltinMatch(hostname, 1)

(***************************************************************************)
(* State                                                                   *)
(***************************************************************************)
VARIABLES
  userAllowlist, userBlocklist,   \* DomainLists._userAllowlist/_userBlocklist
  loaded,                         \* DomainLists._loaded
  storageKeys, storedAllow, storedBlock,  \* chrome.storage.local list keys
  lastOp,                         \* the last DomainLists call made, and whether
                                  \* addToAllowlist of the same name preceded it
  enabled, notificationMode,      \* chrome.storage.local settings
  href, posts,                    \* the page: window.location.href, post elements
  hasRun, results, lastUrl,       \* ScaimAnalyzer._hasRun/_results/_lastUrl
  bannerCallId,                   \* ScaimAnalyzer._bannerCallId
  debounceTimer,                  \* ScaimAnalyzer._debounceTimer: what is pending
  delayedTimers,                  \* the 4000 ms / 8000 ms timers still pending
  storageQ,                       \* chrome.storage.local.get calls in flight
  banner, removeTimer,            \* the #scaim-banner element, _removeTimer
  dismissedUrls,                  \* ScaimBanner._dismissedUrls
  orphanTimers,                   \* 400 ms remove timers _removeTimer lost
  rerunMessages,                  \* SCAIM_RERUN messages of the background under way
  tabData,                        \* background: tabData[tabId]
  popup,                          \* what the popup rendered last
  platform, observer,             \* SocialMediaScanner._platform/_observer
  observerTimer, scanTimers,      \* pending scanAllPosts timers
  scannedPosts, marked,           \* _scannedPosts, posts holding a warning
  analysed, injected, merged,     \* per post: analyses, warnings, merges made
  socialMerged,                   \* categories addSocialFindings has merged
  skipped,                        \* posts _scanPost met again and skipped
  events,                         \* messages and page changes so far
  lastPass,                       \* how the last _analyze() call ended
  lastCheck,                      \* what the last _analyzeWithDomainCheck() did
  callIn, callOut,                \* a function called by itself: argument, result
  handlers                        \* background list-message handlers in flight

scoringVars == <<aggIn, aggOut, aggPrev>>
listVars    == <<userAllowlist, userBlocklist, loaded, storageKeys,
                 storedAllow, storedBlock, lastOp>>
pageVars    == <<enabled, notificationMode, href, posts, hasRun, results,
                 lastUrl, bannerCallId, debounceTimer, delayedTimers,
                 storageQ, banner, removeTimer, tabData, popup, platform,
                 observer, observerTimer, scanTimers, scannedPosts, marked,
                 analysed, injected, merged, socialMerged, skipped,
                 events, lastPass, lastCheck, dismissedUrls, orphanTimers,
                 rerunMessages>>
callVars    == <<callIn, callOut>>
backgroundVars == <<handlers>>
vars        == <<scoringVars, listVars, pageVars, callVars, backgroundVars>>

(***************************************************************************)
(* ScaimScoring.aggregate as a called function                             *)
(***************************************************************************)
Scores == {s \in 0..100 : s % ScoreStep = 0}

\* findings a detector may hand to the aggregator
FindingSamples ==
  { <<>>,
    <<[severity |-> "low", category |-> "Urgency Language"]>>,
    <<[severity |-> "critical", category |-> "Seed Phrase Theft"]>>,
    <<[severity |-> "medium", category |-> "Obfuscated Code"]>>,
    <<[severity |-> "medium", category |-> "Exit Prevention"],
      [severity |-> "high", category |-> "No HTTPS"]>> }

\* at most MaxSources detectors hand findings to one aggregate() call
MaxSources == 1

SmallSubsets(S, n) == {T \in SUBSET S : Cardinality(T) <= n}

\* detector-result maps: the detectors in A have a non-zero score, those in
\* F have findings
DetectorInput(A, sc, F, fs) ==
  [d \in DetectorNames |->
     [score    |-> IF d \in A THEN sc[d] ELSE 0,
      findings |-> IF d \in F THEN fs[d] ELSE <<>>]]

NoOutput == [score |-> 0, findings |-> <<>>]

NoAssessment ==
  [level |-> "null", score |-> 0, findings |-> <<>>,
   summary |-> [text |-> "null", count |-> 0]]

\* no aggregate() call made yet
NoCall ==
  [input |-> [d \in DetectorNames |-> NoOutput], output |-> NoAssessment,
   calls |-> 0, others |-> FALSE]

InitScoringVars ==
  /\ aggIn = [d \in DetectorNames |-> NoOutput]
  /\ aggOut = NoAssessment
  /\ aggPrev = NoCall

\* message handlers of the background script that can be in flight at once
MaxHandlers == 2

\* no handler in this place
Idle == [type |-> "", hostname |-> "", pc |-> "idle", list |-> {}]

\* the background script has no list message in hand
InitBackgroundVars == handlers = [i \in 1..MaxHandlers |-> Idle]

\* no function called by itself
InitCallVars ==
  /\ callIn = [fn |-> "none"]
  /\ callOut = [fn |-> "none"]

InitListVars ==
  /\ userAllowlist = {}
  /\ userBlocklist = {}
  /\ loaded = FALSE
  /\ storageKeys = {}
  /\ storedAllow = {}
  /\ storedBlock = {}
  /\ lastOp = [op |-> "none", hostname |-> "", afterAllow |-> FALSE]

(***************************************************************************)
(* The content script's state as constructed (object literals, before the  *)
(* script's top-level calls run)                                           *)
(***************************************************************************)
\* post elements the page may hold
MaxPosts == 2
PostIds == 1..MaxPosts

\* ScaimAnalyzer._results = null
NoResults ==
  [level |-> "null", score |-> 0, findings |-> <<>>,
   summary |-> [text |-> "null", count |-> 0],
   allowlisted |-> FALSE, blocklisted |-> FALSE]

\* no #scaim-banner element.  A banner holds what it shows; visible is its
\* scaim-visible class, late says that a lost remove timer was pending
\* when it was shown
NoBanner == [kind |-> "none", level |-> "null", score |-> 0,
             superseded |-> FALSE, visible |-> FALSE, late |-> FALSE]

NoPost == [len |-> 0, sample |-> "none"]

\* no _analyzeWithDomainCheck() call has got past DomainLists.init() yet
NoCheck == [lists |-> "none", detectors |-> FALSE, scanner |-> FALSE,
            banners |-> 0, assessment |-> NoResults]

NoPass == [ended |-> FALSE, threw |-> FALSE, stored |-> FALSE,
           sent |-> FALSE, missing |-> {}]

NoPopup == [view |-> "none", level |-> "null", threw |-> FALSE]

PageUrls == {"https://www.facebook.com/", "https://www.facebook.com/groups"}

\* the fields of ScaimAnalyzer, ScaimBanner, SocialMediaScanner and
\* DomainLists as their object literals set them, on an empty page
Constructed ==
  [enabled |-> TRUE, notificationMode |-> "",
   href |-> "https://www.facebook.com/",
   posts |-> [p \in PostIds |-> NoPost],
   hasRun |-> FALSE, results |-> NoResults, lastUrl |-> "null",
   bannerCallId |-> 0, debounceTimer |-> "none", delayedTimers |-> {},
   storageQ |-> <<>>, banner |-> NoBanner, removeTimer |-> "none",
   tabData |-> NoResults, popup |-> NoPopup, platform |-> "null",
   observer |-> FALSE, observerTimer |-> FALSE, scanTimers |-> 0,
   scannedPosts |-> {}, marked |-> {},
   analysed |-> [p \in PostIds |-> 0],
   injected |-> [p \in PostIds |-> 0],
   merged |-> [p \in PostIds |-> 0],
   socialMerged |-> {}, skipped |-> {}, events |-> 0,
   lastPass |-> NoPass, lastCheck |-> NoCheck,
   dismissedUrls |-> {}, orphanTimers |-> 0, rerunMessages |-> 0,
   loaded |-> FALSE, userAllowlist |-> {}, userBlocklist |-> {}]

\* the content script's variables hold the state S
Holds(S) ==
  /\ enabled = S.enabled
  /\ notificationMode = S.notificationMode
  /\ href = S.href
  /\ posts = S.posts
  /\ hasRun = S.hasRun
  /\ results = S.results
  /\ lastUrl = S.lastUrl
  /\ bannerCallId = S.bannerCallId
  /\ debounceTimer = S.debounceTimer
  /\ delayedTimers = S.delayedTimers
  /\ storageQ = S.storageQ
  /\ banner = S.banner
  /\ removeTimer = S.removeTimer
  /\ tabData = S.tabData
  /\ popup = S.popup
  /\ platform = S.platform
  /\ observer = S.observer
  /\ observerTimer = S.observerTimer
  /\ scanTimers = S.scanTimers
  /\ scannedPosts = S.scannedPosts
  /\ marked = S.marked
  /\ analysed = S.analysed
  /\ injected = S.injected
  /\ merged = S.merged
  /\ socialMerged = S.socialMerged
  /\ skipped = S.skipped
  /\ events = S.events
  /\ lastPass = S.lastPass
  /\ lastCheck = S.lastCheck
  /\ dismissedUrls = S.dismissedUrls
  /\ orphanTimers = S.orphanTimers
  /\ rerunMessages = S.rerunMessages
  /\ loaded = S.loaded
  /\ userAllowlist = S.userAllowlist
  /\ userBlocklist = S.userBlocklist

InitPageVars == Holds(Constructed)

InitScoring ==
  /\ \E A \in SmallSubsets(DetectorNames, MaxActive),
        F \in SmallSubsets(DetectorNames, MaxSources) :
       \E sc \in [A -> Scores \ {0}], fs \in [F -> FindingSamples \ {<<>>}] :
          aggIn = DetectorInput(A, sc, F, fs)
  /\ aggOut = NoAssessment
  /\ aggPrev = NoCall
  /\ InitListVars
  /\ InitPageVars
  /\ InitBackgroundVars
  /\ InitCallVars

AggregateCall ==
  /\ aggOut = NoAssessment
  /\ aggOut' = aggregate(aggIn)
  /\ UNCHANGED <<aggIn, aggPrev, listVars, pageVars, callVars, backgroundVars>>

NextScoring == AggregateCall

SpecScoring == InitScoring /\ [][NextScoring]_vars

(***************************************************************************)
(* DomainLists mutation                                                    *)
(***************************************************************************)
\* at most MaxListed hostnames are kept on the two user lists together
MaxListed == 3

\* hostnames handed to the list operations
ListHosts ==
  {"localhost", "app.localhost", "example.com", "A.Example.com",
   "github.io", "evil.github.io"}

\* _persist: one storage write carrying both lists
_persist(allow, block) ==
  /\ storageKeys' = storageKeys \cup {"scaim_allowlist", "scaim_blocklist"}
  /\ storedAllow' = allow
  /\ storedBlock' = block

\* the record of a call, for the properties that speak of call sequences
Called(op, hostname) ==
  [op |-> op, hostname |-> hostname,
   afterAllow |-> lastOp.op = "addToAllowlist" /\ lastOp.hostname = hostname]

addToAllowlist(h0) ==
  LET hostname == toLowerCase(h0)
  IN  /\ userAllowlist' = userAllowlist \cup {hostname}
      /\ userBlocklist' = userBlocklist \ {hostname}
      /\ _persist(userAllowlist', userBlocklist')
      /\ lastOp' = Called("addToAllowlist", hostname)

removeFromAllowlist(h0) ==
  LET hostname == toLowerCase(h0)
  IN  /\ userAllowlist' = userAllowlist \ {hostname}
      /\ userBlocklist' = userBlocklist
      /\ _persist(userAllowlist', userBlocklist')
      /\ lastOp' = Called("removeFromAllowlist", hostname)

\* addToBlocklist without the eviction from the allowlist
addToBlocklistNoEvict(h0) ==
  LET hostname == toLowerCase(h0)
  IN  /\ userBlocklist' = userBlocklist \cup {hostname}
      /\ userAllowlist' = userAllowlist
      /\ _persist(userAllowlist', userBlocklist')
      /\ lastOp' = Called("addToBlocklist", hostname)

addToBlocklist(h0) ==
  LET hostname == toLowerCase(h0)
  IN  /\ userBlocklist' = userBlocklist \cup {hostname}
      /\ userAllowlist' = userAllowlist \ {hostname}
      /\ _persist(userAllowlist', userBlocklist')
      /\ lastOp' = Called("addToBlocklist", hostname)

removeFromBlocklist(h0) ==
  LET hostname == toLowerCase(h0)
  IN  /\ userBlocklist' = userBlocklist \ {hostname}
      /\ userAllowlist' = userAllowlist
      /\ _persist(userAllowlist', userBlocklist')
      /\ lastOp' = Called("removeFromBlocklist", hostname)

isAllowed(hostname) == isAllowedIn(userAllowlist, hostname)
isBlocked(hostname) == isBlockedIn(userBlocklist, hostname)

Room(h) ==
  \/ toLowerCase(h) \in userAllowlist \cup userBlocklist
  \/ Cardinality(userAllowlist \cup userBlocklist) < MaxListed

AddToAllowlist ==
  \E h \in ListHosts :
    /\ Room(h)
    /\ addToAllowlist(h)
    /\ UNCHANGED <<loaded, scoringVars, pageVars, callVars, backgroundVars>>

RemoveFromAllowlist ==
  \E h \in ListHosts :
    /\ removeFromAllowlist(h)
    /\ UNCHANGED <<loaded, scoringVars, pageVars, callVars, backgroundVars>>

AddToBlocklist ==
  \E h \in ListHosts :
    /\ Room(h)
    /\ addToBlocklist(h)
    /\ UNCHANGED <<loaded, scoringVars, pageVars, callVars, backgroundVars>>

RemoveFromBlocklist ==
  \E h \in ListHosts :
    /\ removeFromBlocklist(h)
    /\ UNCHANGED <<loaded, scoringVars, pageVars, callVars, backgroundVars>>

InitLists ==
  /\ InitScoringVars /\ InitListVars /\ InitPageVars /\ InitCallVars
  /\ InitBackgroundVars

NextLists ==
  \/ AddToAllowlist
  \/ RemoveFromAllowlist
  \/ AddToBlocklist
  \/ RemoveFromBlocklist

SpecLists == InitLists /\ [][NextLists]_vars

(***************************************************************************)
(* Properties of ScaimScoring.aggregate (SpecScoring)                      *)
(***************************************************************************)
Aggregated == aggOut # NoAssessment

\* every finding handed to the call
InputFindings ==
  UNION { {aggIn[d].findings[i] : i \in 1..Len(aggIn[d].findings)} :
          d \in DetectorNames }

InputHasCritical ==
  \E f \in InputFindings :
     \/ f.severity = "critical"
     \/ f.category \in CRITICAL_ESCALATION_CATEGORIES

\* C3: whenever a finding handed to aggregate has severity critical or a
\* category of CRITICAL_ESCALATION_CATEGORIES, the returned score is at least
\* 41 and the level is warning or danger, whatever the detector scores.
C3_CriticalEscalation ==
  (Aggregated /\ InputHasCritical) =>
     /\ aggOut.score >= 41
     /\ aggOut.level \in {"warning", "danger"}

\* a call whose only escalating finding is critical by category alone and
\* whose detectors all scored 0: the result was lifted to 41
C3_Witness ==
  /\ Aggregated
  /\ \A d \in DetectorNames : aggIn[d].score = 0
  /\ \E f \in InputFindings : f.category = "Obfuscated Code"
  /\ \A f \in InputFindings : f.severity # "critical"
  /\ aggOut.score = 41
  /\ aggOut.level = "warning"

\* the weighted sum in exact arithmetic, in hundredths
RECURSIVE ExactHundredths(_)
ExactHundredths(n) ==
  IF n = 0 THEN 0
  ELSE ExactHundredths(n - 1) + aggIn[DETECTORS[n]].score * WEIGHTS[DETECTORS[n]]

ExactCeiling == (ExactHundredths(Len(DETECTORS)) + 99) \div 100

\* the weights as written, in hundredths, added up
RECURSIVE WeightTotal(_)
WeightTotal(n) ==
  IF n = 0 THEN 0 ELSE WeightTotal(n - 1) + WEIGHTS[DETECTORS[n]]

BandOf(score) ==
  IF score <= 15 THEN "safe" ELSE IF score <= 40 THEN "caution"
  ELSE IF score <= 65 THEN "warning" ELSE "danger"

\* C10: aggregate returns an integer score in 0..100 equal to the ceiling of
\* the weighted sum of the detector scores (after critical escalation and
\* clamping), the weights sum to exactly 1.0, and the level is the band of
\* the score: safe <= 15, caution 16..40, warning 41..65, danger 66..100.
C10_ScoreIsCeilingOfWeightedSum ==
  Aggregated =>
     /\ aggOut.score \in 0..100
     /\ aggOut.score =
          (LET esc == IF InputHasCritical /\ ExactCeiling < 41
                      THEN 41 ELSE ExactCeiling
           IN  IF esc > 100 THEN 100 ELSE esc)
     /\ WeightTotal(Len(DETECTORS)) = 100
     /\ aggOut.level = BandOf(aggOut.score)

(***************************************************************************)
(* Properties of DomainLists (SpecLists)                                   *)
(***************************************************************************)
ListsDisjoint == userAllowlist \cap userBlocklist = {}

AllowThenBlock == lastOp.op = "addToBlocklist" /\ lastOp.afterAllow

\* the domains h is a strict subdomain of: what follows each dot
ParentsOf(h) ==
  {SubSeq(h, i + 1, Len(h)) : i \in {j \in 1..Len(h) : CharAt(h, j) = "."}}

HasDot(h) == \E j \in 1..Len(h) : CharAt(h, j) = "."

QueryHosts == ListHosts \cup {"x.evil.github.io", "b.a.example.com"}

\* no parent of h at or below p is a shared-hosting entry
Unshadowed(h, p) ==
  \A q \in ParentsOf(h) : Len(q) >= Len(p) => q \notin SHARED_HOSTING

\* h is under a shared-hosting domain and neither h nor a more specific
\* parent is allowlisted
SharedHosted(h) ==
  /\ h \notin userAllowlist
  /\ \E sh \in ParentsOf(h) \cap SHARED_HOSTING :
        \A q \in ParentsOf(h) : Len(q) > Len(sh) => q \notin userAllowlist

PageHost == "www.facebook.com"

\* PLATFORMS: name, hosts, genericFallback, minTextLength (0: not set)
PLATFORMS ==
  << [name |-> "facebook", genericFallback |-> FALSE, minTextLength |-> 0,
      hosts |-> {"facebook.com", "www.facebook.com", "m.facebook.com",
                 "web.facebook.com"}],
     [name |-> "x", genericFallback |-> FALSE, minTextLength |-> 0,
      hosts |-> {"x.com", "www.x.com", "twitter.com", "www.twitter.com"}],
     [name |-> "instagram", genericFallback |-> FALSE, minTextLength |-> 0,
      hosts |-> {"instagram.com", "www.instagram.com"}],
     [name |-> "linkedin", genericFallback |-> FALSE, minTextLength |-> 0,
      hosts |-> {"linkedin.com", "www.linkedin.com"}],
     [name |-> "reddit", genericFallback |-> FALSE, minTextLength |-> 0,
      hosts |-> {"reddit.com", "www.reddit.com", "old.reddit.com",
                 "new.reddit.com"}],
     [name |-> "tiktok", genericFallback |-> FALSE, minTextLength |-> 0,
      hosts |-> {"tiktok.com", "www.tiktok.com", "m.tiktok.com"}],
     [name |-> "soundcloud", genericFallback |-> TRUE, minTextLength |-> 10,
      hosts |-> {"soundcloud.com", "www.soundcloud.com",
                 "m.soundcloud.com"}],
     [name |-> "youtube", genericFallback |-> TRUE, minTextLength |-> 0,
      hosts |-> {"youtube.com", "www.youtube.com", "m.youtube.com"}],
     [name |-> "linktree", genericFallback |-> FALSE, minTextLength |-> 5,
      hosts |-> {"linktr.ee"}] >>

NoPlatform ==
  [name |-> "null", genericFallback |-> FALSE, minTextLength |-> 0,
   hosts |-> {}]

\* _detectPlatform: the first platform one of whose hosts matches
RECURSIVE DetectFrom(_, _)
DetectFrom(hostname, n) ==
  IF n > Len(PLATFORMS) THEN NoPlatform
  ELSE IF \E h \in PLATFORMS[n].hosts :
             hostname = h \/ endsWith(hostname, "." \o h)
       THEN PLATFORMS[n]
       ELSE DetectFrom(hostname, n + 1)

_detectPlatform(hostname0) == DetectFrom(toLowerCase(hostname0), 1)

PlatformOf(name) ==
  IF \E n \in 1..Len(PLATFORMS) : PLATFORMS[n].name = name
  THEN PLATFORMS[CHOOSE n \in 1..Len(PLATFORMS) : PLATFORMS[n].name = name]
  ELSE NoPlatform

\* (the arrow of four labels is written "->")
COMBO_RULES ==
  << [require |-> <<"Bio Link Solicitation", "Income Claim">>,
       escalate |-> "medium", label |-> "Income Pitch + Bio Link"],
     [require |-> <<"Bio Link Solicitation", "Emoji Pattern">>,
       escalate |-> "medium", label |-> "Bio Link + Hype Emojis"],
     [require |-> <<"DM Solicitation", "Income Claim">>,
       escalate |-> "medium", label |-> "Income Pitch + DM Request"],
     [require |-> <<"DM Solicitation", "Fake Scarcity">>,
       escalate |-> "medium", label |-> "DM + Fake Scarcity"],
     [require |-> <<"MLM/Pyramid", "Income Claim">>,
       escalate |-> "high", label |-> "MLM + Income Claims"],
     [require |-> <<"Engagement Farming", "Income Claim">>,
       escalate |-> "high", label |-> "Engagement Farm + Income"],
     [require |-> <<"Engagement Farming", "Guru Scam">>,
       escalate |-> "high", label |-> "Engagement Farm + Guru"],
     [require |-> <<"Platform Migration", "Income Claim">>,
       escalate |-> "high", label |-> "Off-Platform + Income"],
     [require |-> <<"Platform Migration", "Romance Scam">>,
       escalate |-> "high", label |-> "Off-Platform + Romance"],
     [require |-> <<"Platform Migration", "Contact Solicitation">>,
       escalate |-> "medium", label |-> "Off-Platform + Contact Request"],
     [require |-> <<"Platform Migration", "Investment Scam">>,
       escalate |-> "high", label |-> "Off-Platform + Investment"],
     [require |-> <<"Wrong Number Opener", "Pig Butchering Probe">>,
       escalate |-> "high", label |-> "Wrong Number -> Investment Probe"],
     [require |-> <<"Wrong Number Scam", "Platform Migration">>,
       escalate |-> "high", label |-> "Wrong Number -> Off-Platform"],
     [require |-> <<"Pig Butchering Probe", "Pig Butchering Deposit">>,
       escalate |-> "critical", label |-> "Pig Butchering: Probe -> Deposit"],
     [require |-> <<"Romance Scam", "Advance Fee Scam">>,
       escalate |-> "critical", label |-> "Romance + Fee Request"],
     [require |-> <<"Romance Manipulation", "Platform Migration">>,
       escalate |-> "high", label |-> "Romance + Off-Platform"],
     [require |-> <<"Romance Manipulation", "WhatsApp Solicitation">>,
       escalate |-> "high", label |-> "Romance + WhatsApp"],
     [require |-> <<"Fake Scarcity", "Income Claim">>,
       escalate |-> "high", label |-> "Scarcity + Income Claims"],
     [require |-> <<"FOMO Manipulation", "Investment Scam">>,
       escalate |-> "high", label |-> "FOMO + Investment"],
     [require |-> <<"Fake Time Pressure", "Prize Scam">>,
       escalate |-> "high", label |-> "Time Pressure + Prize"],
     [require |-> <<"Urgency Manipulation", "Advance Fee Scam">>,
       escalate |-> "high", label |-> "Urgency + Fee"],
     [require |-> <<"Emoji Pattern", "Income Claim">>,
       escalate |-> "medium", label |-> "Hype Emojis + Income"],
     [require |-> <<"Emoji Pattern", "Fake Cash Giveaway">>,
       escalate |-> "high", label |-> "Hype Emojis + Giveaway"],
     [require |-> <<"Emoji Pattern", "Cash Flipping Scam">>,
       escalate |-> "high", label |-> "Hype Emojis + Cash Flip"],
     [require |-> <<"Generosity Scam", "Cash Tag Harvesting">>,
       escalate |-> "high", label |-> "Fake Generosity + Cash Tag Collection"],
     [require |-> <<"Task Scam", "Platform Migration">>,
       escalate |-> "high", label |-> "Task Scam + Off-Platform"],
     [require |-> <<"Task Scam", "Task Scam Deposit Trap">>,
       escalate |-> "critical", label |-> "Task Scam -> Deposit Trap"],
     [require |-> <<"Recovery Scam", "Contact Solicitation">>,
       escalate |-> "critical", label |-> "Recovery Scam + Contact"],
     [require |-> <<"Recovery Scam", "WhatsApp Solicitation">>,
       escalate |-> "critical", label |-> "Recovery Scam + WhatsApp"],
     [require |-> <<"Fake Engagement Service", "DM Solicitation">>,
       escalate |-> "high", label |-> "Fake Plays + DM Request"],
     [require |-> <<"Fake Engagement Service", "Platform Migration">>,
       escalate |-> "high", label |-> "Fake Plays + Off-Platform"],
     [require |-> <<"Fake Label Scout", "Platform Migration">>,
       escalate |-> "high", label |-> "Fake Label + Off-Platform"],
     [require |-> <<"Fake Label Scout", "Advance Fee Scam">>,
       escalate |-> "critical", label |-> "Fake Label + Fee Request"],
     [require |-> <<"Fake Discovery Promise", "Advance Fee Scam">>,
       escalate |-> "critical", label |-> "Fake Discovery + Fee"] >>

Categories(fs) == {fs[i].category : i \in 1..Len(fs)}

\* the loop testing only that some required category is present
RECURSIVE ComboLoopAny(_, _, _)
ComboLoopAny(findings, categories, n) ==
  IF n = 0 THEN findings
  ELSE LET done == ComboLoopAny(findings, categories, n - 1)
           rule == COMBO_RULES[n]
       IN  IF \E i \in 1..Len(rule.require) : rule.require[i] \in categories
           THEN Append(done, [severity |-> rule.escalate,
                              category |-> "Pattern Combination",
                              detail |-> "Combined signals: " \o rule.label])
           ELSE done

\* the loop over COMBO_RULES: rule n pushes one "Pattern Combination"
\* finding when all its categories were present before the loop
RECURSIVE ComboLoop(_, _, _)
ComboLoop(findings, categories, n) ==
  IF n = 0 THEN findings
  ELSE LET done == ComboLoop(findings, categories, n - 1)
           rule == COMBO_RULES[n]
       IN  IF \A i \in 1..Len(rule.require) : rule.require[i] \in categories
           THEN Append(done, [severity |-> rule.escalate,
                              category |-> "Pattern Combination",
                              detail |-> "Combined signals: " \o rule.label])
           ELSE done

\* the generic escalation counting the categories of all findings
_checkCombinationsAllSeverities(findings) ==
  IF Len(findings) < 2 THEN findings
  ELSE
    LET combined == ComboLoop(findings, Categories(findings),
                              Len(COMBO_RULES))
        uniqueLowCategories == Cardinality(Categories(combined))
    IN  IF uniqueLowCategories >= 4
        THEN Append(combined, [severity |-> "high",
                               category |-> "Multiple Indicators",
                               detail |-> "highly suspicious"])
        ELSE IF uniqueLowCategories >= 3
        THEN Append(combined, [severity |-> "medium",
                               category |-> "Multiple Indicators",
                               detail |-> "worth extra caution"])
        ELSE combined

_checkCombinations(findings) ==
  IF Len(findings) < 2 THEN findings
  ELSE
    LET combined == ComboLoop(findings, Categories(findings),
                              Len(COMBO_RULES))
        uniqueLowCategories ==
          Cardinality({combined[i].category :
                         i \in {j \in 1..Len(combined) :
                                  combined[j].severity = "low"}})
    IN  IF uniqueLowCategories >= 4
        THEN Append(combined, [severity |-> "high",
                               category |-> "Multiple Indicators",
                               detail |-> "highly suspicious"])
        ELSE IF uniqueLowCategories >= 3
        THEN Append(combined, [severity |-> "medium",
                               category |-> "Multiple Indicators",
                               detail |-> "worth extra caution"])
        ELSE combined

\* what _checkPatterns, _checkLinks, _checkEmojiPatterns and
\* _checkContactSolicitation push for a post's text, by kind of post
PostSamples == {"clean", "pitch"}

PostFindings(sample) ==
  IF sample = "pitch"
  THEN <<[severity |-> "medium", category |-> "Income Claim"],
         [severity |-> "medium", category |-> "Income Claim"],
         [severity |-> "low", category |-> "MLM/Pyramid"],
         [severity |-> "low", category |-> "DM Solicitation"]>>
  ELSE <<>>

\* innerText lengths a post may have: under and over the default minimum
TextLengths == {8, 30}

DefaultMinLen == 20

\* what the nine detectors return for the page as it is when scanned, or
\* the detector whose scan() throws
OneDetector(d, score, findings) ==
  [n \in DetectorNames |->
     IF n = d THEN [score |-> score, findings |-> findings] ELSE NoOutput]

PageScans ==
  { [thrower |-> "none", results |-> [n \in DetectorNames |-> NoOutput]],
    [thrower |-> "none",
     results |-> OneDetector("cryptoScam", 50,
                   <<[severity |-> "critical",
                      category |-> "Seed Phrase Theft"]>>)],
    [thrower |-> "phishing", results |-> [n \in DetectorNames |-> NoOutput]] }

(***************************************************************************)
(* The content script's handlers as functions of its state                 *)
(***************************************************************************)
\* calls and timers one page may have pending at once
MaxPending == 3
MaxBannerCalls == 3
MaxScanTimers == 2

\* messages from the popup and changes of the page in one run
MaxEvents == 2

\* remove timers _removeTimer no longer holds, and SCAIM_RERUN messages the
\* background has yet to send, at once
MaxOrphanTimers == 1
MaxRerunMessages == 1

\* the state the handlers read and write
Cur ==
  [enabled |-> enabled, notificationMode |-> notificationMode,
   href |-> href, posts |-> posts, hasRun |-> hasRun, results |-> results,
   lastUrl |-> lastUrl, bannerCallId |-> bannerCallId,
   debounceTimer |-> debounceTimer, delayedTimers |-> delayedTimers,
   storageQ |-> storageQ, banner |-> banner, removeTimer |-> removeTimer,
   tabData |-> tabData, popup |-> popup, platform |-> platform,
   observer |-> observer, observerTimer |-> observerTimer,
   scanTimers |-> scanTimers, scannedPosts |-> scannedPosts,
   marked |-> marked, analysed |-> analysed, injected |-> injected,
   merged |-> merged, socialMerged |-> socialMerged, skipped |-> skipped,
   events |-> events,
   lastPass |-> lastPass, lastCheck |-> lastCheck,
   dismissedUrls |-> dismissedUrls, orphanTimers |-> orphanTimers,
   rerunMessages |-> rerunMessages,
   loaded |-> loaded, userAllowlist |-> userAllowlist,
   userBlocklist |-> userBlocklist]

\* the content script's state S becomes the next state
BecomesPage(S) ==
  /\ Len(S.storageQ) <= MaxPending
  /\ S.orphanTimers <= MaxOrphanTimers
  /\ S.rerunMessages <= MaxRerunMessages
  /\ S.bannerCallId <= MaxBannerCalls
  /\ S.scanTimers <= MaxScanTimers
  /\ S.events <= MaxEvents
  /\ enabled' = S.enabled
  /\ notificationMode' = S.notificationMode
  /\ href' = S.href
  /\ posts' = S.posts
  /\ hasRun' = S.hasRun
  /\ results' = S.results
  /\ lastUrl' = S.lastUrl
  /\ bannerCallId' = S.bannerCallId
  /\ debounceTimer' = S.debounceTimer
  /\ delayedTimers' = S.delayedTimers
  /\ storageQ' = S.storageQ
  /\ banner' = S.banner
  /\ removeTimer' = S.removeTimer
  /\ tabData' = S.tabData
  /\ popup' = S.popup
  /\ platform' = S.platform
  /\ observer' = S.observer
  /\ observerTimer' = S.observerTimer
  /\ scanTimers' = S.scanTimers
  /\ scannedPosts' = S.scannedPosts
  /\ marked' = S.marked
  /\ analysed' = S.analysed
  /\ injected' = S.injected
  /\ merged' = S.merged
  /\ socialMerged' = S.socialMerged
  /\ skipped' = S.skipped
  /\ events' = S.events
  /\ lastPass' = S.lastPass
  /\ lastCheck' = S.lastCheck
  /\ dismissedUrls' = S.dismissedUrls
  /\ orphanTimers' = S.orphanTimers
  /\ rerunMessages' = S.rerunMessages
  /\ loaded' = S.loaded
  /\ userAllowlist' = S.userAllowlist
  /\ userBlocklist' = S.userBlocklist

\* the state S becomes the next state, and storage stays as it is
Becomes(S) ==
  /\ BecomesPage(S)
  /\ UNCHANGED <<scoringVars, storageKeys, storedAllow, storedBlock, lastOp,
                 callVars, backgroundVars>>

\* call ids counted back from the newest: _bannerCallId is only ever tested
\* for equality with the id a pending callback holds, so ids more than
\* MaxBannerCalls calls old, which no later id equals, are all written 0
Renumbered(S) ==
  LET d == S.bannerCallId - MaxBannerCalls
      q == S.storageQ
  IN  IF d <= 0 THEN S
      ELSE [S EXCEPT !.bannerCallId = MaxBannerCalls,
                     !.storageQ = [i \in 1..Len(q) |->
                                     [q[i] EXCEPT !.callId = Max(0, @ - d)]]]

\* the handler's result becomes the next state
Commit(result) == \E S \in {Renumbered(result)} : Becomes(S)

\* chrome.storage.local.get(key, callback): a call in flight.  A banner
\* call also holds its callId and the assessment object it was given;
\* aliased says that object is still the one in _results, and superseded
\* records that rerun() or a newer banner call came after it.
Get(kind) ==
  [kind |-> kind, callId |-> 0, assessment |-> NoResults,
   aliased |-> FALSE, superseded |-> FALSE]

\* this._results = a, a new object (or null): calls in flight keep the
\* object they hold
Assign(S, a) ==
  LET q == S.storageQ
  IN  [S EXCEPT !.results = a,
                !.storageQ = [i \in 1..Len(q) |->
                                [q[i] EXCEPT !.aliased = FALSE]]]

\* a write into the object in _results: calls in flight holding that
\* object see it
Mutate(S, a) ==
  LET q == S.storageQ
  IN  [S EXCEPT !.results = a,
                !.storageQ = [i \in 1..Len(q) |->
                                IF q[i].aliased
                                THEN [q[i] EXCEPT !.assessment = a]
                                ELSE q[i]]]

\* pending banner calls, marked as having a later call or rerun after them
Supersede(q) ==
  [i \in 1..Len(q) |->
     IF q[i].kind = "notificationMode"
     THEN [q[i] EXCEPT !.superseded = TRUE] ELSE q[i]]

\* _sendToBackground, and the background's SCAIM_RESULTS handler storing
\* message.data in tabData[tabId]
_sendToBackground(S, assessment) == [S EXCEPT !.tabData = assessment]

\* _showBannerIfAllowed(this._results): ++_bannerCallId and the storage call
_showBannerIfAllowed(S) ==
  LET callId == S.bannerCallId + 1
  IN  [S EXCEPT !.bannerCallId = callId,
                !.storageQ =
                   Append(Supersede(S.storageQ),
                          [kind |-> "notificationMode", callId |-> callId,
                           assessment |-> S.results, aliased |-> TRUE,
                           superseded |-> FALSE])]

(***************************************************************************)
(* The banner's text and the body MutationObserver                         *)
(*                                                                         *)
(* Lengths are String.length values (UTF-16 code units): each icon is two  *)
(* units, and the dashes of the source (U+2014) are written "-", one unit  *)
(* as well.                                                                *)
(***************************************************************************)
\* String(n).length for n >= 0
RECURSIVE DecimalLength(_)
DecimalLength(n) == IF n < 10 THEN 1 ELSE 1 + DecimalLength(n \div 10)

\* levelConfig.icon.length
IconLength == 2

\* _getLevelConfig(level).title: configs[level] || configs.caution
_getLevelConfig(level) ==
  IF level = "warning" THEN "ScAIm - Warning"
  ELSE IF level = "danger" THEN "ScAIm - Danger"
  ELSE "ScAIm - Caution"

\* the privacy note closing the findings panel
PrivacyNote ==
  "All analysis is performed locally in your browser. ScAIm does not "
  \o "collect, transmit, or log any of your personal data."

\* assessment.summary.length, by the sentence the summary stands for
summaryLength(summary) ==
  LET count == DecimalLength(summary.count)
  IN  IF summary.text = "caution"
      THEN Len("ScAIm detected ") + count
           + Len(" concern(s) on this page. Proceed with caution and "
                 \o "avoid sharing sensitive information.")
      ELSE IF summary.text = "warning"
      THEN Len("ScAIm found ") + count
           + Len(" suspicious element(s) on this page. Be very careful "
                 \o "before entering any personal or financial information.")
      ELSE IF summary.text = "danger"
      THEN Len("ScAIm strongly advises extreme caution. This page shows ")
           + count
           + Len(" sign(s) of a potential scam. Do not enter any personal "
                 \o "or financial information.")
      ELSE IF summary.text = "minor observations"
      THEN Len("Page scanned - ") + count
           + Len(" minor observation(s) noted, but no major concerns "
                 \o "detected.")
      ELSE IF summary.text = "no concerns"
      THEN Len("Page scanned - no concerns detected.")
      ELSE IF summary.text = "Scam content detected"
      THEN Len("Scam content detected in posts/messages on this page.")
      ELSE IF summary.text = "Suspicious content found"
      THEN Len("Suspicious content found in posts/messages on this page.")
      ELSE IF summary.text = "Some suspicious content detected"
      THEN Len("Some suspicious content detected in posts/messages.")
      ELSE IF summary.text = "allowlisted"
      THEN Len("This site is on your trusted allowlist - analysis skipped.")
      ELSE IF summary.text = "Scan pending" THEN Len("Scan pending")
      ELSE IF summary.text = "" THEN 0
      ELSE Len("This domain is blocklisted (") + Len(summary.text)
           + Len("). Exercise extreme caution.")

\* f.message.length for the findings of this page: the seed-phrase finding
\* of the first seed pattern ("seed phrase entry"), the blocklist finding of the match the
\* summary names, and for a social finding f.detail || f.category of the
\* post finding it was converted from
messageLength(f, assessment) ==
  IF f.category = "Seed Phrase Theft"
  THEN Len("This page requests your ") + Len("seed phrase entry")
       + Len(" - NEVER enter your seed phrase or private key on any "
             \o "website. This is almost certainly an attempt to steal "
             \o "your crypto wallet.")
  ELSE IF f.category = "Blocklisted Domain"
  THEN Len("This domain (") + Len(PageHost) + Len(") is on the ")
       + (IF assessment.summary.text = "User Blocklist"
          THEN Len("your custom") ELSE Len("ScAIm built-in"))
       + Len(" blocklist - category: ") + Len(assessment.summary.text)
       + Len(". This site has been identified as potentially dangerous.")
  ELSE IF f.category = "Social: Pattern Combination"
  THEN Len("Combined signals: Income Pitch + DM Request")
  ELSE IF f.category = "Social: Multiple Indicators"
  THEN Len("3 different warning categories detected - worth extra caution")
  ELSE IF startsWith(f.category, "Social: ")
  THEN Len(f.category) - Len("Social: ")
  ELSE Len(f.category)

\* the sum of g[i] for i in 1..n
RECURSIVE SumTo(_, _)
SumTo(g, n) == IF n = 0 THEN 0 ELSE SumTo(g, n - 1) + g[n]

\* _createBanner(assessment).textContent.length: the header, the three top
\* findings, the findings panel and the privacy note
bannerTextLength(assessment) ==
  LET fs == assessment.findings
      message == [i \in 1..Len(fs) |-> messageLength(fs[i], assessment)]
      finding == [i \in 1..Len(fs) |->
                    Len(fs[i].severity) + Len("[") + Len(fs[i].category)
                    + Len("]") + Len(" ") + message[i]]
  IN  IconLength + Len(_getLevelConfig(assessment.level))
      + Len("Score: ") + DecimalLength(assessment.score) + Len("/100")
      + summaryLength(assessment.summary)
      + Len("Show all findings (") + DecimalLength(Len(fs)) + Len(")")
      + Len("Trust this site") + Len("Dismiss")
      + SumTo(message, Min(3, Len(fs)))
      + SumTo(finding, Len(fs))
      + Len(PrivacyNote)

\* the lite banner's textContent.length: icon, title, score, dismiss cross
liteTextLength(assessment) ==
  IconLength + Len(_getLevelConfig(assessment.level)) + Len(" - Score: ")
  + DecimalLength(assessment.score) + Len("/100") + 1

\* the threshold of addedTextLength in the body observer
SignificantTextLength == 500

\* the body observer's callback for one element ScAIm added under
\* document.body (one added node, no form in it): a significant change
\* replaces _debounceTimer by the 2000 ms rerun timer
scaimObserver(S, addedTextLength) ==
  IF addedTextLength > SignificantTextLength
  THEN [S EXCEPT !.debounceTimer = "mutation"] ELSE S

\* ScaimBanner.remove
remove(S) == [S EXCEPT !.banner = NoBanner]

\* ScaimBanner.show: nothing at a dismissed URL; else it clears
\* _removeTimer and replaces the banner
show(S, call) ==
  IF S.href \in S.dismissedUrls THEN S
  ELSE scaimObserver(
         [S EXCEPT !.removeTimer = "none",
                   !.banner = [kind |-> "full",
                               level |-> call.assessment.level,
                               score |-> call.assessment.score,
                               superseded |-> call.superseded,
                               visible |-> TRUE,
                               late |-> S.orphanTimers > 0]],
         bannerTextLength(call.assessment))

\* ScaimBanner.showLite: as show, and starts the 5000 ms auto-hide timer
showLite(S, call) ==
  IF S.href \in S.dismissedUrls THEN S
  ELSE scaimObserver(
         [S EXCEPT !.removeTimer = "autohide",
                   !.banner = [kind |-> "lite",
                               level |-> call.assessment.level,
                               score |-> call.assessment.score,
                               superseded |-> call.superseded,
                               visible |-> TRUE,
                               late |-> S.orphanTimers > 0]],
         liteTextLength(call.assessment))

\* the callback of _showBannerIfAllowed's storage call
BannerCallback(S, call) ==
  LET mode == IF S.notificationMode = "" THEN "full"
              ELSE S.notificationMode
  IN  IF call.callId # S.bannerCallId THEN S
      ELSE IF mode = "full" THEN show(S, call)
      ELSE IF mode = "lite" THEN showLite(S, call)
      ELSE S

run(S) ==
  IF S.hasRun THEN S
  ELSE [S EXCEPT !.hasRun = TRUE, !.lastUrl = S.href,
                 !.storageQ = Append(S.storageQ, Get("enabled"))]

rerun(S) ==
  LET cleared == Assign([S EXCEPT !.hasRun = FALSE, !.lastUrl = S.href,
                                  !.storageQ = Supersede(S.storageQ)],
                        NoResults)
  IN  run(remove(cleared))

\* addSocialFindings: findings.map(...) to the page-level format
ConvertFinding(f) ==
  [severity |-> IF f.severity = "" THEN "medium" ELSE f.severity,
   category |-> "Social: " \o (IF f.category = "" THEN "Suspicious Content"
                               ELSE f.category)]

\* the loop body with the duplicate check left out
PushAlways(fs, f) == Append(fs, f)

\* the loop body: push f unless its category is already present
PushNew(fs, f) ==
  IF f.category \in Categories(fs) THEN fs ELSE Append(fs, f)

RECURSIVE PushAll(_, _, _)
PushAll(fs, new, n) ==
  IF n = 0 THEN fs ELSE PushNew(PushAll(fs, new, n - 1), new[n])

\* severityScore[f.severity] || 5
severityScore(sev) ==
  IF sev = "critical" THEN 40 ELSE IF sev = "high" THEN 25
  ELSE IF sev = "medium" THEN 15 ELSE 5

RECURSIVE SumSeverity(_, _)
SumSeverity(fs, n) ==
  IF n = 0 THEN 0 ELSE SumSeverity(fs, n - 1) + severityScore(fs[n].severity)

\* { level: "safe", score: 0, findings: [], summary: "" }
BaseResults ==
  [level |-> "safe", score |-> 0, findings |-> <<>>,
   summary |-> [text |-> "", count |-> 0],
   allowlisted |-> FALSE, blocklisted |-> FALSE]

\* what addSocialFindings leaves in the results object r
MergeSocial(r, findings) ==
  LET Levelled(all, score) ==
        IF score >= 70
        THEN [r EXCEPT !.findings = all, !.score = score, !.level = "danger",
                       !.summary = [text |-> "Scam content detected",
                                    count |-> 0]]
        ELSE IF score >= 40
        THEN [r EXCEPT !.findings = all, !.score = score,
                       !.level = "warning",
                       !.summary = [text |-> "Suspicious content found",
                                    count |-> 0]]
        ELSE IF score >= 15
        THEN [r EXCEPT !.findings = all, !.score = score,
                       !.level = "caution",
                       !.summary = [text |-> "Some suspicious content detected",
                                    count |-> 0]]
        ELSE [r EXCEPT !.findings = all, !.score = score]
      Scored(all, socialScore) ==
        Levelled(all, IF socialScore > r.score THEN socialScore ELSE r.score)
      Summed(all) == Scored(all, Min(SumSeverity(all, Len(all)), 100))
  IN  Summed(PushAll(r.findings,
                     [i \in 1..Len(findings) |-> ConvertFinding(findings[i])],
                     Len(findings)))

addSocialFindings(S, findings) ==
  IF Len(findings) = 0 THEN S
  ELSE
    LET Shown(stored, after) ==
          _sendToBackground(IF after.level # "safe"
                            THEN _showBannerIfAllowed(stored) ELSE stored,
                            after)
        Stored(based, after) ==
          Shown([Mutate(based, after) EXCEPT
                   !.socialMerged =
                      @ \cup {ConvertFinding(findings[i]).category :
                                i \in 1..Len(findings)}],
                after)
        Merged(based) == Stored(based, MergeSocial(based.results, findings))
    IN  Merged(IF S.results = NoResults THEN Assign(S, BaseResults) ELSE S)

\* _analyze with the detectors returning scan.results, or scan.thrower
\* throwing: the catch logs and nothing else is done
_analyze(S, scan) ==
  IF scan.thrower # "none"
  THEN [S EXCEPT !.lastPass = [ended |-> TRUE, threw |-> TRUE,
                               stored |-> FALSE, sent |-> FALSE,
                               missing |-> {}]]
  ELSE
    LET existingSocialFindings ==
          IF S.results = NoResults THEN <<>>
          ELSE SelectSeq(S.results.findings,
                         LAMBDA f : startsWith(f.category, "Social: "))
        Passed(shown, assessment) ==
          [shown EXCEPT !.lastPass =
             [ended |-> TRUE, threw |-> FALSE, stored |-> TRUE,
              sent |-> TRUE,
              missing |-> S.socialMerged \ Categories(assessment.findings)]]
        Shown(stored, assessment) ==
          Passed(IF assessment.level # LEVELS.SAFE
                 THEN _showBannerIfAllowed(stored) ELSE stored,
                 assessment)
        Stored(assessment) ==
          Shown(_sendToBackground(Assign(S, assessment), assessment),
                assessment)
        Attached(agg, existingCats) ==
          Stored([level |-> agg.level, score |-> agg.score,
                  summary |-> agg.summary,
                  findings |-> agg.findings \o
                               SelectSeq(existingSocialFindings,
                                         LAMBDA sf :
                                           sf.category \notin existingCats),
                  allowlisted |-> FALSE, blocklisted |-> FALSE])
        Aggregated_(agg) == Attached(agg, Categories(agg.findings))
    IN  Aggregated_(aggregate(scan.results))

\* SocialMediaScanner.init: detect the platform, schedule the scans, and
\* _startObserver (the replaced observer's debounce timer stays pending)
init(S) ==
  LET Detected(detected) ==
        IF detected = NoPlatform THEN [S EXCEPT !.platform = "null"]
        ELSE [S EXCEPT
                !.platform = detected.name,
                !.observer = TRUE,
                !.observerTimer = FALSE,
                !.scanTimers = @ + 1
                               + (IF detected.genericFallback THEN 2 ELSE 0)
                               + (IF S.observerTimer THEN 1 ELSE 0)]
  IN  Detected(_detectPlatform(PageHost))

AllowlistedAssessment ==
  [level |-> "safe", score |-> 0, findings |-> <<>>,
   summary |-> [text |-> "allowlisted", count |-> 0],
   allowlisted |-> TRUE, blocklisted |-> FALSE]

BlocklistedAssessment(blockMatch) ==
  [level |-> "danger", score |-> 100,
   findings |-> <<[severity |-> "critical",
                   category |-> "Blocklisted Domain"]>>,
   summary |-> [text |-> blockMatch.category, count |-> 0],
   allowlisted |-> FALSE, blocklisted |-> TRUE]

\* the domain lists chrome.storage.local may hold when the page loads
StoredLists ==
  { [keys |-> {}, allow |-> {}, block |-> {}],
    [keys |-> {"scaim_allowlist", "scaim_blocklist"},
     allow |-> {"facebook.com"}, block |-> {}],
    [keys |-> {"scaim_allowlist", "scaim_blocklist"},
     allow |-> {}, block |-> {PageHost}] }

\* the lists DomainLists can hold on the page: empty, or as stored, and
\* these with the page's hostname added
PageLists ==
  LET held == {{}} \cup {lists.allow : lists \in StoredLists}
                   \cup {lists.block : lists \in StoredLists}
  IN  held \cup {list \cup {toLowerCase(PageHost)} : list \in held}

\* DomainLists.isAllowed(hostname) and isBlocked(hostname) for the page's
\* hostname, by list held
PageAllowed == [allow \in PageLists |-> isAllowedIn(allow, PageHost)]

PageBlocked == [block \in PageLists |-> isBlockedIn(block, PageHost)]

\* what consulting the lists gives for the page's hostname
Consulted(S) ==
  IF PageAllowed[S.userAllowlist] THEN "allowlisted"
  ELSE IF PageBlocked[S.userBlocklist] # NoMatch THEN "blocklisted"
  ELSE "neither"

\* the record of a domain check that took S (with lastPass cleared) to T:
\* the detectors ran if _analyze() wrote lastPass
Checked(S, T) ==
  [T EXCEPT
     !.lastPass = IF T.lastPass = NoPass THEN S.lastPass ELSE @,
     !.lastCheck = [lists |-> Consulted(S),
                    detectors |-> T.lastPass # NoPass,
                    scanner |-> T.scanTimers # S.scanTimers,
                    banners |-> T.bannerCallId - S.bannerCallId,
                    assessment |-> T.results]]

\* a domain check whose allowlist branch goes on to the full analysis
DomainCheckedScansAllowed(S, scan) ==
  LET blockMatch == PageBlocked[S.userBlocklist]
      Begun == [S EXCEPT !.lastPass = NoPass]
  IN  Checked(S,
        IF blockMatch # NoMatch /\ ~PageAllowed[S.userAllowlist]
        THEN _showBannerIfAllowed(
               _sendToBackground(
                 Assign(Begun, BlocklistedAssessment(blockMatch)),
                 BlocklistedAssessment(blockMatch)))
        ELSE init(_analyze(Begun, scan)))

\* _analyzeWithDomainCheck from the point DomainLists.init() has resolved
DomainChecked(S, scan) ==
  LET blockMatch == PageBlocked[S.userBlocklist]
      Begun == [S EXCEPT !.lastPass = NoPass]
  IN  Checked(S,
        IF PageAllowed[S.userAllowlist]
        THEN _sendToBackground(Assign(Begun, AllowlistedAssessment),
                               AllowlistedAssessment)
        ELSE IF blockMatch # NoMatch
        THEN _showBannerIfAllowed(
               _sendToBackground(
                 Assign(Begun, BlocklistedAssessment(blockMatch)),
                 BlocklistedAssessment(blockMatch)))
        ELSE init(_analyze(Begun, scan)))

(***************************************************************************)
(* SocialMediaScanner.scanAllPosts                                         *)
(***************************************************************************)
\* a history counter that stops at 2
Bump(c) == IF c < 2 THEN c + 1 ELSE c

\* the seen-set check never finding the post
AlreadyScannedNever(S, p) == FALSE

\* this._scannedPosts.has(postElement)
AlreadyScanned(S, p) == p \in S.scannedPosts

_scanPost(S, p) ==
  IF AlreadyScanned(S, p) THEN [S EXCEPT !.skipped = @ \cup {p}]
  ELSE
    LET seen == [S EXCEPT !.scannedPosts = @ \cup {p}]
        MinLen(config) == IF config.minTextLength # 0
                          THEN config.minTextLength ELSE DefaultMinLen
        Found(findings) ==
          IF Len(findings) > 0
          THEN addSocialFindings(
                 [seen EXCEPT !.analysed[p] = Bump(@),
                              !.marked = @ \cup {p},
                              !.injected[p] = Bump(@),
                              !.merged[p] = Bump(@)],
                 findings)
          ELSE [seen EXCEPT !.analysed[p] = Bump(@)]
    IN  IF p \in S.marked THEN seen
        ELSE IF S.posts[p].len < MinLen(PlatformOf(S.platform)) THEN seen
        ELSE Found(_checkCombinations(PostFindings(S.posts[p].sample)))

\* for (const post of posts) this._scanPost(post), in document order
RECURSIVE ScanFrom(_, _)
ScanFrom(S, p) ==
  IF p > MaxPosts THEN S
  ELSE ScanFrom(IF S.posts[p] # NoPost THEN _scanPost(S, p) ELSE S, p + 1)

\* scanAllPosts; a warning inserted into the feed wakes the feed observer,
\* which schedules the next scan
scanAllPosts(S) ==
  LET Scanned(done) ==
        IF done.marked # S.marked /\ done.observer
        THEN [done EXCEPT !.observerTimer = TRUE] ELSE done
  IN  IF S.platform = "null" THEN S ELSE Scanned(ScanFrom(S, 1))

\* popup renderResults(data): the no-data panel, or the status of data.level
renderResults(data, threw) ==
  IF data = NoResults
  THEN [view |-> "noData", level |-> "null", threw |-> threw]
  ELSE [view |-> "status", level |-> data.level, threw |-> threw]

\* { level: "safe", score: 0, findings: [], summary: "Scan pending" }
ScanPending ==
  [level |-> "safe", score |-> 0, findings |-> <<>>,
   summary |-> [text |-> "Scan pending", count |-> 0],
   allowlisted |-> FALSE, blocklisted |-> FALSE]

\* the SCAIM_GET_RESULTS handler, and the popup rendering its response
GetResults(S, scan) ==
  IF S.results # NoResults
  THEN [S EXCEPT !.popup = renderResults(S.results, FALSE)]
  ELSE IF scan.thrower # "none"
  THEN [S EXCEPT !.popup = renderResults(ScanPending, TRUE)]
  ELSE
    LET Responded(assessment) ==
          [_sendToBackground([Assign(S, assessment) EXCEPT !.hasRun = TRUE],
                             assessment)
             EXCEPT !.popup = renderResults(assessment, FALSE)]
        Aggregated_(agg) ==
          Responded([level |-> agg.level, score |-> agg.score,
                     summary |-> agg.summary, findings |-> agg.findings,
                     allowlisted |-> FALSE, blocklisted |-> FALSE])
    IN  Aggregated_(aggregate(scan.results))

\* the body of the 4000 ms and 8000 ms timers: rerun a pass that found
\* nothing
DelayedRerun(S) ==
  IF S.results # NoResults /\ S.results.score = 0 /\ ~S.results.allowlisted
  THEN rerun(S) ELSE S

(***************************************************************************)
(* The content script on a page: storage callbacks, timers, messages and   *)
(* the page changing under it                                              *)
(*                                                                         *)
(* Each handler runs to completion (one event-loop turn is one step).      *)
(* chrome.storage.local.get callbacks are delivered in the order of the    *)
(* calls and read the stored value at delivery.  The background stores an  *)
(* assessment when it is sent.  The page is www.facebook.com; the post     *)
(* warnings are insertions of under a hundred characters each, below the   *)
(* thresholds of the body observer, the banner's text is measured when it  *)
(* is shown, and the banner lies outside the feed container.  Each         *)
(* run of the nine detectors returns one of PageScans.  The banner's       *)
(* dismiss and trust buttons, SCAIM_MODE_CHANGED and the list messages are *)
(* left out, so _dismissedUrls stays empty.                                *)
(***************************************************************************)
\* the notificationMode chrome.storage.local holds when the page loads
NotificationModes == {"", "lite", "silent"}

\* the state once the content script's top level has run: run(), the
\* navigation hooks, the mutation observer and the two delayed timers
Init ==
  /\ InitScoringVars
  /\ InitCallVars
  /\ InitBackgroundVars
  /\ lastOp = [op |-> "none", hostname |-> "", afterAllow |-> FALSE]
  /\ \E lists \in StoredLists :
       /\ storageKeys = lists.keys
       /\ storedAllow = lists.allow
       /\ storedBlock = lists.block
  /\ \E en \in BOOLEAN, mode \in NotificationModes :
       Holds(run([Constructed EXCEPT !.enabled = en,
                                     !.notificationMode = mode,
                                     !.delayedTimers = {4000, 8000}]))

NextCall == Head(storageQ)

\* the state as a message or a page change finds it
Event == [Cur EXCEPT !.events = @ + 1]

Dequeued == [Cur EXCEPT !.storageQ = Tail(storageQ)]

\* run()'s callback: chrome.storage.local.get("enabled", ...)
EnabledCallback ==
  /\ storageQ # <<>>
  /\ NextCall.kind = "enabled"
  /\ \E scan \in PageScans :
       Commit(IF ~enabled THEN Dequeued
              ELSE IF loaded THEN DomainChecked(Dequeued, scan)
              ELSE [Dequeued EXCEPT !.storageQ = Append(@, Get("lists"))])

\* DomainLists.init()'s callback, and the rest of _analyzeWithDomainCheck
ListsCallback ==
  /\ storageQ # <<>>
  /\ NextCall.kind = "lists"
  /\ \E scan \in PageScans :
       Commit(DomainChecked(
                [Dequeued EXCEPT
                   !.userAllowlist = IF "scaim_allowlist" \in storageKeys
                                     THEN storedAllow ELSE @,
                   !.userBlocklist = IF "scaim_blocklist" \in storageKeys
                                     THEN storedBlock ELSE @,
                   !.loaded = TRUE],
                scan))

\* _showBannerIfAllowed's callback
NotificationModeCallback ==
  /\ storageQ # <<>>
  /\ NextCall.kind = "notificationMode"
  /\ Commit(BannerCallback(Dequeued, NextCall))

\* onMessage SCAIM_GET_RESULTS, sent by the popup
MsgGetResults ==
  /\ events < MaxEvents
  /\ \E scan \in PageScans : Commit(GetResults(Event, scan))

\* onMessage SCAIM_RERUN
MsgRerun ==
  /\ events < MaxEvents
  /\ Commit(rerun(Event))

\* setTimeout(..., 4000)
DelayedTimer4000 ==
  /\ 4000 \in delayedTimers
  /\ Commit(DelayedRerun([Cur EXCEPT !.delayedTimers = @ \ {4000}]))

\* setTimeout(..., 8000)
DelayedTimer8000 ==
  /\ delayedTimers = {8000}
  /\ Commit(scanAllPosts(DelayedRerun([Cur EXCEPT !.delayedTimers = {}])))

\* a setTimeout(() => this.scanAllPosts(), ...) of init, or of an observer
\* that has been replaced
ScanTimer ==
  /\ scanTimers > 0
  /\ Commit(scanAllPosts([Cur EXCEPT !.scanTimers = @ - 1]))

\* the feed observer's 800 ms debounce timer
ObserverTimer ==
  /\ observerTimer
  /\ Commit(scanAllPosts([Cur EXCEPT !.observerTimer = FALSE]))

\* _debounceTimer: the mutation observer's rerun, or _onUrlChange's rerun
\* and scanAllPosts
DebounceTimer ==
  /\ debounceTimer # "none"
  /\ Commit(IF debounceTimer = "url"
            THEN scanAllPosts(rerun([Cur EXCEPT !.debounceTimer = "none"]))
            ELSE rerun([Cur EXCEPT !.debounceTimer = "none"]))

\* the 1000 ms URL poll (or popstate) calling _onUrlChange
UrlPoll ==
  /\ href # lastUrl
  /\ debounceTimer # "url"
  /\ Commit([Cur EXCEPT !.debounceTimer = "url"])

\* the page navigates without reloading
Navigate ==
  \E url \in PageUrls \ {href} : Commit([Event EXCEPT !.href = url])

\* the page adds a post element, and the feed observer sees it
PostAppears ==
  \E p \in PostIds, len \in TextLengths, sample \in PostSamples :
    /\ posts[p] = NoPost
    /\ \A q \in 1..(p - 1) : posts[q] # NoPost
    /\ Commit([Event EXCEPT
                 !.posts[p] = [len |-> len, sample |-> sample],
                 !.observerTimer = @ \/ observer])

\* the page changes outside the feed by more than the body observer's
\* thresholds
SignificantMutation ==
  /\ events < MaxEvents
  /\ Commit([Event EXCEPT !.debounceTimer = "mutation"])

\* the page fills in the text of a post it added short
PostGrows ==
  \E p \in PostIds, len \in TextLengths :
    /\ posts[p] # NoPost
    /\ posts[p].len < len
    /\ Commit([Event EXCEPT !.posts[p].len = len,
                          !.observerTimer = @ \/ observer])

\* the lite banner's 5000 ms auto-hide timer
AutoHideTimer ==
  /\ removeTimer = "autohide"
  /\ Commit(IF banner # NoBanner
            THEN [Cur EXCEPT !.removeTimer = "remove",
                             !.banner.visible = FALSE]
            ELSE [Cur EXCEPT !.removeTimer = "none"])

\* the 400 ms timer that removes the faded banner
RemoveTimer ==
  /\ removeTimer = "remove"
  /\ Commit(remove([Cur EXCEPT !.removeTimer = "none"]))

Next ==
  \/ EnabledCallback
  \/ ListsCallback
  \/ NotificationModeCallback
  \/ MsgGetResults
  \/ MsgRerun
  \/ DelayedTimer4000
  \/ DelayedTimer8000
  \/ ScanTimer
  \/ ObserverTimer
  \/ DebounceTimer
  \/ UrlPoll
  \/ Navigate
  \/ PostAppears
  \/ PostGrows
  \/ SignificantMutation
  \/ AutoHideTimer
  \/ RemoveTimer

Spec == Init /\ [][Next]_vars

(***************************************************************************)
(* Claims about the analysis pass, the banner, the post scanner and the    *)
(* popup                                                                   *)
(***************************************************************************)
\* C1: once addSocialFindings has merged a finding 'Social: X', every later
\* full analysis pass ends with an assessment that still contains
\* 'Social: X': no pass that stored an assessment ended with a merged
\* category missing from it.
C1_SocialFindingsKept ==
  (lastPass.ended /\ lastPass.stored) => lastPass.missing = {}

\* the batches of post findings handed to addSocialFindings: none, what the
\* scanner finds in the sample posts with and without the combination
\* rules, and a finding that carries neither severity nor category
SocialBatches ==
  {PostFindings(sample) : sample \in PostSamples}
    \cup {_checkCombinations(PostFindings(sample)) : sample \in PostSamples}
    \cup {<<[severity |-> "", category |-> ""]>>,
          <<[severity |-> "critical", category |-> "Income Claim"],
            [severity |-> "high", category |-> "Seed Phrase Theft"]>>}

\* score, level and findings of the results object in S
Outcome(S) ==
  [score |-> S.results.score, level |-> S.results.level,
   findings |-> S.results.findings]

\* C2: addSocialFindings is idempotent on score, level and findings: from
\* any state the page reaches and for any batch B, calling it with B a
\* second time straight after the first leaves all three as the first call
\* left them.
C2_AddSocialFindingsIdempotent ==
  \A B \in SocialBatches :
    Outcome(addSocialFindings(addSocialFindings(Cur, B), B))
      = Outcome(addSocialFindings(Cur, B))

\* two posts with the same text were both merged, the second call finding
\* every category of its batch already present
C2_Witness ==
  /\ merged[1] = 1 /\ merged[2] = 1
  /\ posts[1].sample = posts[2].sample
  /\ results # NoResults
  /\ Len(results.findings) = Cardinality(Categories(results.findings))
  /\ socialMerged # {}
  /\ socialMerged \subseteq Categories(results.findings)

\* C6: a superseded banner callback does nothing: no banner on the page was
\* put there by a callback whose request had been followed by rerun() or by
\* a newer _showBannerIfAllowed request.
C6_NoSupersededBanner ==
  banner # NoBanner => ~banner.superseded

\* C7: per-post analysis, warning injection and the addSocialFindings call
\* happen at most once per post element, whatever scanAllPosts calls are
\* made.
C7_OncePerPost ==
  \A p \in PostIds :
    /\ analysed[p] <= 1
    /\ injected[p] <= 1
    /\ merged[p] <= 1
    /\ (p \in marked => injected[p] = 1)

\* a post was analysed, warned about and merged, and a later scanAllPosts
\* met it again and skipped it; another was analysed clean and met again
C7_Witness ==
  /\ \E p \in PostIds :
       /\ p \in skipped /\ p \in marked
       /\ analysed[p] = 1 /\ injected[p] = 1 /\ merged[p] = 1
  /\ \E p \in PostIds :
       p \in skipped /\ p \notin marked /\ analysed[p] = 1

\* C8: a pass in which a detector's scan() throws still stores an
\* assessment and sends it to the background.
C8_ThrowingPassStillStores ==
  (lastPass.ended /\ lastPass.threw) => (lastPass.stored /\ lastPass.sent)

\* C9: when the scan made for the popup throws, the popup shows its no-data
\* state and no level, never "safe" or "danger".
C9_ThrowReportsNoData ==
  popup.threw => (popup.view = "noData" /\ popup.level \notin {"safe", "danger"})

(***************************************************************************)
(* ScaimScoring.aggregate called again and again                           *)
(***************************************************************************)
\* aggregate() calls made in one run
MaxCalls == 3

\* detector results of other passes, aggregated between two calls with the
\* same argument
OtherInputs ==
  { [d \in DetectorNames |-> NoOutput],
    DetectorInput({"keywords", "phishing"},
                  [d \in {"keywords", "phishing"} |-> 100],
                  {"cryptoScam"},
                  [d \in {"cryptoScam"} |->
                     <<[severity |-> "critical",
                        category |-> "Seed Phrase Theft"]>>]) }

\* the detector results of the first call: at most one detector scored and
\* at most one reported findings
InitRepeat ==
  /\ \E A \in SmallSubsets(DetectorNames, 1),
        F \in SmallSubsets(DetectorNames, 1) :
       \E sc \in [A -> Scores \ {0}], fs \in [F -> FindingSamples \ {<<>>}] :
          aggIn = DetectorInput(A, sc, F, fs)
  /\ aggOut = NoAssessment
  /\ aggPrev = NoCall
  /\ InitListVars
  /\ InitPageVars
  /\ InitBackgroundVars
  /\ InitCallVars

\* the first aggregate(results) call
AggregateFirst ==
  /\ aggPrev.calls = 0
  /\ aggOut' = aggregate(aggIn)
  /\ aggPrev' = [input |-> aggIn, output |-> aggOut', calls |-> 1,
                 others |-> FALSE]
  /\ UNCHANGED <<aggIn, listVars, pageVars, callVars, backgroundVars>>

\* a later call, with the first call's argument or with another one
AggregateNext ==
  /\ aggPrev.calls \in 1..(MaxCalls - 1)
  /\ \E input \in {aggPrev.input} \cup OtherInputs :
       /\ aggIn' = input
       /\ aggOut' = aggregate(input)
       /\ aggPrev' = [aggPrev EXCEPT
                        !.calls = @ + 1,
                        !.others = @ \/ input # aggPrev.input]
  /\ UNCHANGED <<listVars, pageVars, callVars, backgroundVars>>

NextRepeat == AggregateFirst \/ AggregateNext

SpecRepeat == InitRepeat /\ [][NextRepeat]_vars

\* the last call had the argument of the first one
SameInputAgain == aggPrev.calls >= 2 /\ aggIn = aggPrev.input

MaxFindings == 3

\* the categories the combination rules ask for
RuleCategories ==
  UNION {{COMBO_RULES[n].require[i] : i \in 1..Len(COMBO_RULES[n].require)} :
           n \in 1..Len(COMBO_RULES)}

\* what _checkPatterns pushes for a pattern of category c
PatternFinding(sev, c) == [severity |-> sev, category |-> c]

InitCombos ==
  /\ \E len \in 1..MaxFindings, sev \in {"low", "medium"} :
       \E cats \in [1..len -> RuleCategories] :
          callIn = [fn |-> "_checkCombinations",
                    arg |-> [i \in 1..len |-> PatternFinding(sev, cats[i])]]
  /\ callOut = [fn |-> "none"]
  /\ InitScoringVars
  /\ InitListVars
  /\ InitPageVars
  /\ InitBackgroundVars

CheckCombinationsCall ==
  /\ callOut.fn = "none"
  /\ callOut' = [fn |-> callIn.fn, value |-> _checkCombinations(callIn.arg)]
  /\ UNCHANGED <<callIn, scoringVars, listVars, pageVars, backgroundVars>>

NextCombos == CheckCombinationsCall

SpecCombos == InitCombos /\ [][NextCombos]_vars

\* rule n has all its categories among the findings fs
RulePresent(n, fs) ==
  \A i \in 1..Len(COMBO_RULES[n].require) :
     COMBO_RULES[n].require[i] \in Categories(fs)

\* the 'Pattern Combination' findings of fs, in order
Combinations(fs) ==
  SelectSeq(fs, LAMBDA f : f.category = "Pattern Combination")

\* the labels of the combinations _checkCombinations adds to findings of
\* the given categories
LabelsFor(cats) ==
  LET added == Combinations(_checkCombinations(
                 [i \in 1..Len(cats) |-> PatternFinding("low", cats[i])]))
  IN  {added[i].detail : i \in 1..Len(added)}

\* C12: for a post with at least two findings, _checkCombinations appends
\* exactly one 'Pattern Combination' finding, with the rule's severity and
\* label, for each rule whose categories are all present, and none for
\* the other rules; the findings it was given stay in front.  Bio link with
\* income claim fires only 'Income Pitch + Bio Link', DM solicitation with
\* MLM fires nothing, and adding an income claim to those fires the high
\* 'MLM + Income Claims'.
C12_CombinationsFired ==
  (callOut.fn = "_checkCombinations" /\ Len(callIn.arg) >= 2) =>
    LET out == callOut.value
        added == Combinations(out)
    IN  /\ SubSeq(out, 1, Len(callIn.arg)) = callIn.arg
        /\ \A n \in 1..Len(COMBO_RULES) :
             Cardinality({i \in 1..Len(added) :
                            /\ added[i].detail =
                                 "Combined signals: " \o COMBO_RULES[n].label
                            /\ added[i].severity = COMBO_RULES[n].escalate})
               = IF RulePresent(n, callIn.arg) THEN 1 ELSE 0
        /\ Len(added) = Cardinality({n \in 1..Len(COMBO_RULES) :
                                       RulePresent(n, callIn.arg)})
        /\ LabelsFor(<<"Bio Link Solicitation", "Income Claim">>)
             = {"Combined signals: Income Pitch + Bio Link"}
        /\ LabelsFor(<<"DM Solicitation", "MLM/Pyramid">>) = {}
        /\ "Combined signals: MLM + Income Claims"
             \in LabelsFor(<<"DM Solicitation", "MLM/Pyramid", "Income Claim">>)

\* findings of DM solicitation, MLM and income claim went in, and the
\* medium DM rule and the high MLM rule fired, and no other
C12_Witness ==
  /\ callOut.fn = "_checkCombinations"
  /\ Categories(callIn.arg) = {"DM Solicitation", "MLM/Pyramid", "Income Claim"}
  /\ Len(Combinations(callOut.value)) = 2
  /\ \E i \in 1..Len(callOut.value) :
       /\ callOut.value[i].category = "Pattern Combination"
       /\ callOut.value[i].severity = "high"
       /\ callOut.value[i].detail = "Combined signals: MLM + Income Claims"

(***************************************************************************)
(* TextNormalizer: text is a sequence of UTF-16 code units                 *)
(***************************************************************************)
\* HOMOGLYPHS: Cyrillic, Greek and dotless-i code units and the ASCII code
\* unit each stands for
HOMOGLYPHS ==
  [ch \in {1072, 1077, 1086, 1088, 1089, 1091, 1093, 1110, 1111, 1082, 1074,
           1053, 1052, 945, 959, 961, 305} |->
     CASE ch = 1072 -> 97   [] ch = 1077 -> 101  [] ch = 1086 -> 111
       [] ch = 1088 -> 112  [] ch = 1089 -> 99   [] ch = 1091 -> 121
       [] ch = 1093 -> 120  [] ch = 1110 -> 105  [] ch = 1111 -> 105
       [] ch = 1082 -> 107  [] ch = 1074 -> 66   [] ch = 1053 -> 72
       [] ch = 1052 -> 77   [] ch = 945 -> 97    [] ch = 959 -> 111
       [] ch = 961 -> 112   [] ch = 305 -> 105]

\* the characters TextNormalizer calls invisible: U+0000, U+200B to U+200F,
\* U+061C, U+180E, U+2060 to U+2064, U+FEFF, U+00AD, U+17B4, U+17B5
InvisibleSet ==
  {0, 1564, 6158, 65279, 173, 6068, 6069} \cup (8203..8207) \cup (8288..8292)

\* the character class with its two ranges read as their end points only
_INVISIBLE_RE_EndPoints(ch) ==
  ch \in {0, 8203, 8207, 1564, 6158, 8288, 8292, 65279, 173, 6068, 6069}

\* _INVISIBLE_RE, the character class
_INVISIBLE_RE(ch) == ch \in InvisibleSet

\* _HOMOGLYPH_RE: the seventeen code units of the class
_HOMOGLYPH_RE(ch) ==
  ch \in {1072, 1077, 1086, 1088, 1089, 1091, 1093, 1110, 1111, 1082, 1074,
          1053, 1052, 945, 959, 961, 305}

\* text.replace(_INVISIBLE_RE, "")
StripInvisible(text) == SelectSeq(text, LAMBDA ch : ~_INVISIBLE_RE(ch))

\* text.replace(_HOMOGLYPH_RE, ch => glyphs[ch] || ch)
ReplaceHomoglyphs(text) ==
  [i \in 1..Len(text) |->
     IF _HOMOGLYPH_RE(text[i])
     THEN (IF text[i] \in DOMAIN HOMOGLYPHS THEN HOMOGLYPHS[text[i]]
           ELSE text[i])
     ELSE text[i]]

normalize(text) ==
  IF text = <<>> THEN <<>> ELSE ReplaceHomoglyphs(StripInvisible(text))

\* code units a text is built from: three ASCII letters, the invisible
\* characters and the homoglyphs
TextUnits ==
  {97, 66, 122} \cup InvisibleSet \cup DOMAIN HOMOGLYPHS

\* code units in one text
MaxText == 3

InitNormalize ==
  /\ \E len \in 0..MaxText : \E text \in [1..len -> TextUnits] :
       callIn = [fn |-> "normalize", arg |-> text]
  /\ callOut = [fn |-> "none"]
  /\ InitScoringVars
  /\ InitListVars
  /\ InitPageVars
  /\ InitBackgroundVars

\* normalize(text)
NormalizeCall ==
  /\ callOut.fn = "none"
  /\ callOut' = [fn |-> "normalize", value |-> normalize(callIn.arg),
                 calls |-> 1, first |-> <<>>]
  /\ UNCHANGED <<callIn, scoringVars, listVars, pageVars, backgroundVars>>

\* normalize applied to what normalize returned
NormalizeAgain ==
  /\ callOut.fn = "normalize"
  /\ callOut.calls = 1
  /\ callOut' = [fn |-> "normalize", value |-> normalize(callOut.value),
                 calls |-> 2, first |-> callOut.value]
  /\ UNCHANGED <<callIn, scoringVars, listVars, pageVars, backgroundVars>>

NextNormalize == NormalizeCall \/ NormalizeAgain

SpecNormalize == InitNormalize /\ [][NextNormalize]_vars

\* C13: normalize is total and idempotent on texts of ASCII letters,
\* invisible characters and homoglyphs: the empty text gives the empty
\* text, the result holds no invisible character and no homoglyph of the
\* table, and normalizing the result again returns it unchanged.
C13_NormalizeIdempotent ==
  callOut.fn = "normalize" =>
    /\ callIn.arg = <<>> => callOut.value = <<>>
    /\ \A i \in 1..Len(callOut.value) :
         /\ callOut.value[i] \notin InvisibleSet
         /\ callOut.value[i] \notin DOMAIN HOMOGLYPHS
    /\ callOut.calls = 2 => callOut.value = callOut.first

\* a text with a zero-width joiner between a Cyrillic a and a Cyrillic B
\* was normalized to "aB", and normalized again
C13_Witness ==
  /\ callOut.fn = "normalize"
  /\ callIn.arg = <<1072, 8205, 1074>>
  /\ callOut.calls = 2
  /\ callOut.value = <<97, 66>>

(***************************************************************************)
(* Regular expressions over code units, as far as the seed phrase patterns *)
(* need them.  A pattern is a sequence of elements; matching an element    *)
(* from a set of offsets gives the set of offsets where it can end.        *)
(***************************************************************************)
\* the code unit of an ASCII lower-case letter, digit, space or hyphen
Unit(c) ==
  IF InChars(c, LowerChars)
  THEN 96 + (CHOOSE i \in 1..26 : CharAt(LowerChars, i) = c)
  ELSE IF InChars(c, DigitChars)
  THEN 47 + (CHOOSE i \in 1..10 : CharAt(DigitChars, i) = c)
  ELSE IF c = "-" THEN 45 ELSE 32

Units(s) == [i \in 1..Len(s) |-> Unit(CharAt(s, i))]

\* \s: the ECMAScript white space and line terminator code units
WhiteSpace ==
  {9, 10, 11, 12, 13, 32, 160, 5760, 8232, 8233, 8239, 8287, 12288, 65279}
    \cup (8192..8202)

\* the code units "." does not match
LineTerminators == {10, 13, 8232, 8233}

Lit(s) == [k |-> "lit", w |-> Units(s)]
Ws == [k |-> "ws+"]
WsStar == [k |-> "ws*"]
WsOne == [k |-> "ws1"]
AnyStar == [k |-> "any*"]
Opt(sub) == [k |-> "opt", sub |-> sub]
Alt(subs) == [k |-> "alt", subs |-> subs]

\* offsets q reachable from an offset of P over code units all in class
Over(P, text, class, least) ==
  {q \in 0..Len(text) :
     \E p \in P : /\ p + least <= q
                  /\ \A i \in (p + 1)..q : text[i] \in class}

RECURSIVE RunSeq(_, _, _, _), StepEl(_, _, _)
StepEl(e, P, text) ==
  CASE e.k = "lit" ->
         {p + Len(e.w) :
            p \in {q \in P : /\ q + Len(e.w) <= Len(text)
                             /\ SubSeq(text, q + 1, q + Len(e.w)) = e.w}}
    [] e.k = "ws+" -> Over(P, text, WhiteSpace, 1)
    [] e.k = "ws*" -> Over(P, text, WhiteSpace, 0)
    [] e.k = "ws1" -> {p + 1 : p \in {q \in P : /\ q < Len(text)
                                              /\ text[q + 1] \in WhiteSpace}}
    [] e.k = "any*" ->
         {q \in 0..Len(text) :
            \E p \in P : /\ p <= q
                         /\ \A i \in (p + 1)..q : text[i] \notin LineTerminators}
    [] e.k = "opt" -> P \cup RunSeq(e.sub, Len(e.sub), P, text)
    [] e.k = "alt" ->
         UNION {RunSeq(e.subs[j], Len(e.subs[j]), P, text) :
                  j \in 1..Len(e.subs)}

RunSeq(re, n, P, text) ==
  IF n = 0 THEN P ELSE StepEl(re[n], RunSeq(re, n - 1, P, text), text)

\* RegExp.prototype.test for a pattern without anchors
test(re, text) == RunSeq(re, Len(re), 0..Len(text), text) # {}

\* String.prototype.toLowerCase on code units: ASCII and the Cyrillic
\* capitals (the capitals of the homoglyph table are Cyrillic)
LowerUnits(text) ==
  [i \in 1..Len(text) |->
     IF text[i] \in 65..90 \/ text[i] \in 1040..1071
     THEN text[i] + 32 ELSE text[i]]

(***************************************************************************)
(* CryptoScamDetector._checkSeedPhraseTheft on a page without input fields *)
(***************************************************************************)
YourWs == Opt(<<Lit("your"), Ws>>)

seedPatterns ==
  << [pattern |-> <<Lit("enter"), Ws, YourWs,
                    Alt(<< <<Lit("seed")>>, <<Lit("recovery")>>,
                           <<Lit("mnemonic")>> >>),
                    Ws, Lit("phrase")>>,
      label |-> "seed phrase entry"],
     [pattern |-> <<Lit("input"), Ws, YourWs,
                    Alt(<< <<Lit("12")>>, <<Lit("24")>> >>), WsStar,
                    Opt(<<Alt(<< <<Lit("-")>>, <<WsOne>> >>)>>),
                    Lit("word"), Ws,
                    Alt(<< <<Lit("phrase")>>, <<Lit("seed")>>,
                           <<Lit("recovery")>> >>)>>,
      label |-> "12/24-word phrase request"],
     [pattern |-> <<Lit("paste"), Ws, YourWs, Lit("private"), Ws, Lit("key")>>,
      label |-> "private key paste request"],
     [pattern |-> <<Lit("enter"), Ws, YourWs, Lit("private"), Ws, Lit("key")>>,
      label |-> "private key entry"],
     [pattern |-> <<Lit("verify"), Ws, YourWs, Lit("wallet"), AnyStar,
                    Lit("seed")>>,
      label |-> "wallet seed verification"],
     [pattern |-> <<Lit("recover"), Ws, YourWs, Lit("wallet"), AnyStar,
                    Lit("phrase")>>,
      label |-> "wallet recovery phrase request"],
     [pattern |-> <<Lit("import"), Ws, Lit("wallet"), AnyStar, Lit("seed"),
                    Ws, Lit("phrase")>>,
      label |-> "wallet import via seed"] >>

\* the loop over seedPatterns from pattern n on: the first pattern that
\* matches pushes the finding and ends the loop
RECURSIVE SeedLoop(_, _)
SeedLoop(pageText, n) ==
  IF n > Len(seedPatterns) THEN [score |-> 0, findings |-> <<>>]
  ELSE IF test(seedPatterns[n].pattern, pageText)
  THEN [score |-> 35,
        findings |-> <<[severity |-> "critical",
                        category |-> "Seed Phrase Theft",
                        message |-> seedPatterns[n].label]>>]
  ELSE SeedLoop(pageText, n + 1)

\* _checkSeedPhraseTheft for a page whose body text is innerText
_checkSeedPhraseTheft(innerText) == SeedLoop(LowerUnits(innerText), 1)

\* page texts that ask for a key or phrase, and one that does not
BaseTexts ==
  {Units("paste your private key"), Units("enter seed phrase"),
   Units("my key phrase")}

\* t with the code unit u inserted after offset p
Inserted(t, p, u) == SubSeq(t, 1, p) \o <<u>> \o SubSeq(t, p + 1, Len(t))

\* the texts got from t by inserting one invisible character or by putting
\* one homoglyph for the letter it stands for, and t itself
Disguised(t) ==
  {t} \cup {Inserted(t, p, u) : p \in 0..Len(t), u \in InvisibleSet}
      \cup UNION {{[t EXCEPT ![i] = g] :
                      g \in {h \in DOMAIN HOMOGLYPHS : HOMOGLYPHS[h] = t[i]}} :
                   i \in 1..Len(t)}

InitEvasion ==
  /\ \E t \in BaseTexts : \E text \in Disguised(t) :
       callIn = [fn |-> "_checkSeedPhraseTheft", arg |-> text]
  /\ callOut = [fn |-> "none"]
  /\ InitScoringVars
  /\ InitListVars
  /\ InitPageVars
  /\ InitBackgroundVars

\* the check run on the page as served
SeedPhraseOnPage ==
  /\ callOut.fn = "none"
  /\ callOut' = [fn |-> callIn.fn, value |-> _checkSeedPhraseTheft(callIn.arg),
                 both |-> FALSE, normalized |-> [score |-> 0, findings |-> <<>>]]
  /\ UNCHANGED <<callIn, scoringVars, listVars, pageVars, backgroundVars>>

\* the check run on a page whose text is the normalized text
SeedPhraseOnNormalized ==
  /\ callOut.fn = "_checkSeedPhraseTheft"
  /\ ~callOut.both
  /\ callOut' = [callOut EXCEPT
                   !.both = TRUE,
                   !.normalized = _checkSeedPhraseTheft(normalize(callIn.arg))]
  /\ UNCHANGED <<callIn, scoringVars, listVars, pageVars, backgroundVars>>

SpecEvasion ==
  InitEvasion /\ [][SeedPhraseOnPage \/ SeedPhraseOnNormalized]_vars

\* C14: every text-pattern check matches normalized text: for a page text
\* with invisible characters inserted or homoglyphs substituted, a detector
\* returns the same findings as for the normalized text.
C14_ChecksSeeNormalizedText ==
  (callOut.fn = "_checkSeedPhraseTheft" /\ callOut.both) =>
     callOut.value = callOut.normalized

PageLocations ==
  {[protocol |-> pr, hostname |-> "shop.example", port |-> ""] :
     pr \in {"http:", "https:"}}

FormActions ==
  {[kind |-> k, protocol |-> "", hostname |-> "", port |-> ""] :
     k \in {"none", "relative", "malformed"}}
  \cup {[kind |-> "absolute", protocol |-> pr, hostname |-> h, port |-> po] :
          pr \in {"http:", "https:"}, h \in {"shop.example", "evil.example"},
          po \in {"", "8080"}}

MaxHidden == 4

Forms ==
  [action : FormActions, method : {"", "get", "POST"}, hidden : 0..MaxHidden,
   password : BOOLEAN, email : BOOLEAN]

\* new URL(action, window.location.href), for an action new URL() accepts
URL(action, location) ==
  IF action.kind = "relative" THEN location
  ELSE [protocol |-> action.protocol, hostname |-> action.hostname,
        port |-> action.port]

\* two findings and scores put together
Plus(a, b) ==
  [score |-> a.score + b.score, findings |-> a.findings \o b.findings]

Found(points, sev, cat) ==
  [score |-> points, findings |-> <<[severity |-> sev, category |-> cat]>>]

\* _checkForms: the body of forms.forEach
CheckForm(form, location) ==
  LET method == toLowerCase(IF form.method = "" THEN "get" ELSE form.method)
      actionPart ==
        IF form.action.kind # "none" /\ method = "post"
        THEN IF form.action.kind = "malformed"
             THEN Found(10, "medium", "Malformed Form")
             ELSE IF URL(form.action, location).hostname # location.hostname
             THEN Found(30, "critical", "External Form Action")
             ELSE NoOutput
        ELSE NoOutput
      hiddenPart ==
        IF form.hidden > 0
        THEN Found(Min(15, form.hidden * 3),
                   IF form.hidden > 3 THEN "high" ELSE "medium",
                   "Hidden Form Fields")
        ELSE NoOutput
      passwordPart ==
        IF form.password /\ location.protocol # "https:"
        THEN Found(25, "critical", "Insecure Password Field")
        ELSE NoOutput
  IN  Plus(Plus(actionPart, hiddenPart), passwordPart)

\* forms.forEach: the scores and findings of the forms, in order
RECURSIVE EachForm(_, _)
EachForm(perForm, n) ==
  IF n = 0 THEN NoOutput ELSE Plus(EachForm(perForm, n - 1), perForm[n])

_checkForms(page) ==
  EachForm([n \in 1..Len(page.forms) |->
              CheckForm(page.forms[n], page.location)],
           Len(page.forms))

_checkHTTPS(page) ==
  IF page.location.protocol = "http:" THEN Found(15, "high", "No HTTPS")
  ELSE NoOutput

\* StructuralDetector.scan on a page whose scripts, iframes, links,
\* resources and input names give nothing
StructuralScan(page) ==
  LET Capped(r) == [r EXCEPT !.score = Min(100, @)]
  IN  Capped(Plus(_checkForms(page), _checkHTTPS(page)))

\* _checkLoginForms: the body of forms.forEach
CheckLoginForm(form, location) ==
  IF ~form.password /\ ~form.email THEN NoOutput
  ELSE Plus(IF location.protocol = "http:"
            THEN Found(25, "critical", "Insecure Login") ELSE NoOutput,
            IF /\ form.action.kind \in {"relative", "absolute"}
               /\ URL(form.action, location).hostname # location.hostname
            THEN Found(30, "critical", "External Login Action")
            ELSE NoOutput)

_checkLoginForms(page) ==
  EachForm([n \in 1..Len(page.forms) |->
              CheckLoginForm(page.forms[n], page.location)],
           Len(page.forms))

\* PhishingDetector.scan on a page whose URL and domain give nothing
PhishingScan(page) ==
  LET Capped(r) == [r EXCEPT !.score = Min(100, @)]
  IN  Capped(_checkLoginForms(page))

\* the nine detector results of a page whose only notable content is its
\* forms
FormPageResults(page) ==
  [d \in DetectorNames |->
     IF d = "structural" THEN StructuralScan(page)
     ELSE IF d = "phishing" THEN PhishingScan(page)
     ELSE NoOutput]

InitFormPage ==
  /\ \E location \in PageLocations, form \in Forms :
       callIn = [fn |-> "aggregate",
                 arg |-> [location |-> location, forms |-> <<form>>]]
  /\ callOut = [fn |-> "none"]
  /\ InitScoringVars
  /\ InitListVars
  /\ InitPageVars
  /\ InitBackgroundVars

\* the detectors scan the page and the results are aggregated
ScanFormPage ==
  /\ callOut.fn = "none"
  /\ callOut' = [fn |-> callIn.fn,
                 results |-> FormPageResults(callIn.arg),
                 value |-> aggregate(FormPageResults(callIn.arg))]
  /\ UNCHANGED <<callIn, scoringVars, listVars, pageVars, backgroundVars>>

SpecFormPage == InitFormPage /\ [][ScanFormPage]_vars

\* the page is served over HTTP and its one form is a login form whose
\* action resolves to another origin
ExternalLoginOnHttp ==
  /\ callOut.fn = "aggregate"
  /\ callIn.arg.location.protocol = "http:"
  /\ callIn.arg.forms[1].password
  /\ callIn.arg.forms[1].action.kind \in {"relative", "absolute"}
  /\ URL(callIn.arg.forms[1].action, callIn.arg.location)
       # callIn.arg.location

HasFinding(fs, sev, cat) ==
  \E i \in 1..Len(fs) : fs[i].severity = sev /\ fs[i].category = cat

\* C16: on an HTTP page whose only notable content is a login form whose
\* action resolves to a different origin, the structural detector reports
\* the critical 'External Form Action', the insecure-login and 'No HTTPS'
\* findings are reported, and the aggregate is level 'danger' with a score
\* of 66 or more.
C16_ExternalLoginIsDanger ==
  ExternalLoginOnHttp =>
    /\ HasFinding(callOut.results.structural.findings, "critical",
                  "External Form Action")
    /\ HasFinding(callOut.value.findings, "critical", "Insecure Login")
    /\ HasFinding(callOut.value.findings, "high", "No HTTPS")
    /\ callOut.value.level = "danger"
    /\ callOut.value.score >= 66

(***************************************************************************)
(* IEEE 754 doubles with any significand, for products and quotients of    *)
(* doubles: a positive double is m * 2^e with m an odd natural below 2^53, *)
(* held as its bits, least significant first.                              *)
(***************************************************************************)
RECURSIVE BitsOf(_)
BitsOf(n) == IF n = 0 THEN <<>> ELSE <<n % 2>> \o BitsOf(n \div 2)

RECURSIVE NatOf(_)
NatOf(b) == IF b = <<>> THEN 0 ELSE b[1] + 2 * NatOf(Tail(b))

\* the bits of a number given by digits d[i] >= 0 of weight 2^(i-1)
RECURSIVE Carry(_, _, _)
Carry(d, i, c) ==
  IF i > Len(d) THEN BitsOf(c)
  ELSE <<(d[i] + c) % 2>> \o Carry(d, i + 1, (d[i] + c) \div 2)

\* a * b, exact
MulBits(a, b) ==
  Carry([k \in 1..(Len(a) + Len(b) - 1) |->
           Cardinality({j \in 1..Len(b) :
                          /\ b[j] = 1
                          /\ k + 1 - j \in 1..Len(a)
                          /\ a[k + 1 - j] = 1})],
        1, 0)

\* m * 2^e with the low zero bits of m moved into e
Odd(m, e) ==
  LET Low(k) == [m |-> SubSeq(m, k, Len(m)), e |-> e + k - 1]
  IN  Low(CHOOSE k \in 1..Len(m) : m[k] = 1 /\ \A j \in 1..(k - 1) : m[j] = 0)

\* b * 2^e (plus something below one unit of b when sticky) rounded to the
\* nearest double, ties to even; the top bit of b is 1
RoundBits(b, e, sticky) ==
  LET s == Len(b) - 53
  IN  IF s <= 0 THEN Odd(b, e)
      ELSE IF b[s] = 1 /\ (sticky \/ b[s + 1] = 1
                             \/ \E i \in 1..(s - 1) : b[i] = 1)
      THEN Odd(Carry(SubSeq(b, s + 1, Len(b)), 1, 1), e + s)
      ELSE Odd(SubSeq(b, s + 1, Len(b)), e + s)

\* the double product x * y
DMul(x, y) == RoundBits(MulBits(x.m, y.m), x.e + y.e, FALSE)

\* k digits of 10 bits of the fraction rem / d, as bits, and what remains
RECURSIVE FracDigits(_, _, _)
FracDigits(rem, d, k) ==
  IF k = 0 THEN [q |-> <<>>, rem |-> rem]
  ELSE LET Digit(bits) == bits \o [i \in 1..(10 - Len(bits)) |-> 0]
           Rest(r) == [r EXCEPT !.q = @ \o Digit(BitsOf((rem * 1024) \div d))]
       IN  Rest(FracDigits((rem * 1024) % d, d, k - 1))

\* the double n / d for naturals n > 0 and d > 0 below 2^10: the value of
\* the quotient n / d, and of the decimal literal it spells
DQuot(n, d) ==
  LET Top(q) == CHOOSE k \in 1..Len(q) :
                  q[k] = 1 /\ \A j \in (k + 1)..Len(q) : q[j] = 0
      Rounded(q, rem) == RoundBits(SubSeq(q, 1, Top(q)), -70, rem # 0)
      Whole(r) == Rounded(r.q \o BitsOf(n \div d), r.rem)
  IN  Whole(FracDigits(n % d, d, 7))

\* Math.floor and Math.ceil of a double below 2^30
DFloor(x) ==
  IF x.e >= 0 THEN NatOf([i \in 1..x.e |-> 0] \o x.m)
  ELSE NatOf(SubSeq(x.m, 1 - x.e, Len(x.m)))

DCeil(x) == DFloor(x) + (IF x.e < 0 THEN 1 ELSE 0)

(***************************************************************************)
(* KeywordScanner: the score of a set of matches                           *)
(***************************************************************************)
\* the keys of SCAIM_KEYWORDS
KeywordCategories ==
  {"financial", "money", "dataExchange", "urgency", "authority",
   "rewardBait", "crypto"}

\* Math.min(100, (total / 80) * 100)
_calculateRawScore(total) ==
  LET Capped(x) == IF DFloor(x) >= 100 THEN DQuot(100, 1) ELSE x
  IN  Capped(DMul(DQuot(total, 80), DQuot(100, 1)))

\* a compound multiplier that does not grow beyond three categories
_getCompoundMultiplierFlat(matchedCategories) ==
  LET count == Cardinality(matchedCategories)
  IN  IF count <= 1 THEN DQuot(10, 10)
      ELSE IF count = 2 THEN DQuot(15, 10)
      ELSE IF count = 3 THEN DQuot(20, 10)
      ELSE DQuot(10, 10)

_getCompoundMultiplier(matchedCategories) ==
  LET count == Cardinality(matchedCategories)
  IN  IF count <= 1 THEN DQuot(10, 10)
      ELSE IF count = 2 THEN DQuot(15, 10)
      ELSE IF count = 3 THEN DQuot(20, 10)
      ELSE DQuot(25, 10)

_getUrgencyMultiplier(matchedCategories) ==
  LET hasFinancial == "financial" \in matchedCategories
                        \/ "money" \in matchedCategories
      hasData == "dataExchange" \in matchedCategories
      hasCrypto == "crypto" \in matchedCategories
  IN  IF "urgency" \notin matchedCategories THEN DQuot(10, 10)
      ELSE IF hasFinancial /\ hasData THEN DQuot(15, 10)
      ELSE IF hasCrypto /\ (hasFinancial \/ hasData) THEN DQuot(15, 10)
      ELSE IF hasFinancial \/ hasData \/ hasCrypto THEN DQuot(13, 10)
      ELSE DQuot(11, 10)

\* finalScore of scan(), for matches of the given categories whose scores
\* add up to total
finalScore(total, matchedCategories) ==
  Min(100,
      DCeil(DMul(DMul(_calculateRawScore(total),
                      _getCompoundMultiplier(matchedCategories)),
                 _getUrgencyMultiplier(matchedCategories))))

\* the least weight of a keyword, and the totals looked at
MinWeight == 3
MaxTotal == 80

InitKeywords ==
  /\ \E total \in (4 * MinWeight)..MaxTotal :
       \E one \in KeywordCategories :
         \E four \in {M \in SUBSET KeywordCategories : Cardinality(M) = 4} :
           callIn = [fn |-> "finalScore",
                     arg |-> [total |-> total, one |-> {one}, four |-> four]]
  /\ callOut = [fn |-> "none"]
  /\ InitScoringVars
  /\ InitListVars
  /\ InitPageVars
  /\ InitBackgroundVars

\* the page with matches in one category is scanned
ScanOneCategory ==
  /\ callOut.fn = "none"
  /\ callOut' = [fn |-> "one",
                 one |-> finalScore(callIn.arg.total, callIn.arg.one),
                 four |-> 0]
  /\ UNCHANGED <<callIn, scoringVars, listVars, pageVars, backgroundVars>>

\* the page with matches in four categories is scanned
ScanFourCategories ==
  /\ callOut.fn = "one"
  /\ callOut' = [callOut EXCEPT
                   !.fn = "finalScore",
                   !.four = finalScore(callIn.arg.total, callIn.arg.four)]
  /\ UNCHANGED <<callIn, scoringVars, listVars, pageVars, backgroundVars>>

SpecKeywords == InitKeywords /\ [][ScanOneCategory \/ ScanFourCategories]_vars

\* C17: for a fixed total raw keyword weight the final score of a match
\* set spanning four categories is at least that of a match set of one
\* category, whichever categories they are (the one may be 'urgency').
C17_FourCategoriesScoreMore ==
  callOut.fn = "finalScore" => callOut.four >= callOut.one

\* the single category is 'urgency', the four have none of its partners,
\* and neither score is capped
C17_Witness ==
  /\ callOut.fn = "finalScore"
  /\ callIn.arg.one = {"urgency"}
  /\ "urgency" \notin callIn.arg.four
  /\ callOut.one > callIn.arg.total
  /\ callOut.four < 100

(***************************************************************************)
(* The background script's list messages.  A handler is a chain of         *)
(* chrome.storage.local.get callbacks ending in one set; a get callback    *)
(* sees the storage as it is when the callback runs, and callbacks of      *)
(* different handlers run in any order.  The set's own callback (the       *)
(* SCAIM_RERUN sent to the active tab, sendResponse) changes no list.      *)
(***************************************************************************)
ListMessages ==
  {"SCAIM_ALLOWLIST_ADD", "SCAIM_ALLOWLIST_REMOVE", "SCAIM_BLOCKLIST_ADD",
   "SCAIM_BLOCKLIST_REMOVE"}

\* message.hostname
MessageHosts == {"Evil.example", "shop.example"}

\* result.scaim_allowlist || [] and result.scaim_blocklist || []
Stored(key) ==
  IF key \notin storageKeys THEN {}
  ELSE IF key = "scaim_allowlist" THEN storedAllow ELSE storedBlock

\* the list a message is about
OwnKey(type) ==
  IF type \in {"SCAIM_ALLOWLIST_ADD", "SCAIM_ALLOWLIST_REMOVE"}
  THEN "scaim_allowlist" ELSE "scaim_blocklist"

\* chrome.storage.local.set with the given keys
Set(keys, allow, block) ==
  /\ storageKeys' = storageKeys \cup keys
  /\ storedAllow' = IF "scaim_allowlist" \in keys THEN allow ELSE storedAllow
  /\ storedBlock' = IF "scaim_blocklist" \in keys THEN block ELSE storedBlock
  /\ UNCHANGED <<userAllowlist, userBlocklist, loaded, lastOp, scoringVars,
                 pageVars, callVars>>

\* onMessage for a list message: the first get is sent
ListMessage ==
  \E i \in 1..MaxHandlers, type \in ListMessages, hostname \in MessageHosts :
    /\ handlers[i].pc = "idle"
    /\ handlers' = [handlers EXCEPT
                      ![i] = [type |-> type, hostname |-> hostname,
                              pc |-> "get1", list |-> {}]]
    /\ UNCHANGED <<scoringVars, listVars, pageVars, callVars>>

\* SCAIM_ALLOWLIST_ADD, SCAIM_BLOCKLIST_ADD: the callback of the first get
\* adds the hostname to the list read and sends the second get
AddFirstCallback ==
  \E i \in 1..MaxHandlers :
    /\ handlers[i].pc = "get1"
    /\ handlers[i].type \in {"SCAIM_ALLOWLIST_ADD", "SCAIM_BLOCKLIST_ADD"}
    /\ handlers' = [handlers EXCEPT
                      ![i].pc = "get2",
                      ![i].list = Stored(OwnKey(handlers[i].type))
                                    \cup {toLowerCase(handlers[i].hostname)}]
    /\ UNCHANGED <<scoringVars, listVars, pageVars, callVars>>

\* the callback of the second get deletes the hostname from the other
\* list and writes both lists
AddSecondCallback ==
  \E i \in 1..MaxHandlers :
    /\ handlers[i].pc = "get2"
    /\ handlers' = [handlers EXCEPT ![i] = Idle]
    /\ IF handlers[i].type = "SCAIM_ALLOWLIST_ADD"
       THEN Set({"scaim_allowlist", "scaim_blocklist"}, handlers[i].list,
                Stored("scaim_blocklist")
                  \ {toLowerCase(handlers[i].hostname)})
       ELSE Set({"scaim_allowlist", "scaim_blocklist"},
                Stored("scaim_allowlist")
                  \ {toLowerCase(handlers[i].hostname)},
                handlers[i].list)

\* SCAIM_ALLOWLIST_REMOVE, SCAIM_BLOCKLIST_REMOVE: the callback of the get
\* deletes the hostname and writes the one list
RemoveCallback ==
  \E i \in 1..MaxHandlers :
    /\ handlers[i].pc = "get1"
    /\ handlers[i].type \in {"SCAIM_ALLOWLIST_REMOVE",
                             "SCAIM_BLOCKLIST_REMOVE"}
    /\ handlers' = [handlers EXCEPT ![i] = Idle]
    /\ Set({OwnKey(handlers[i].type)},
           Stored("scaim_allowlist") \ {toLowerCase(handlers[i].hostname)},
           Stored("scaim_blocklist") \ {toLowerCase(handlers[i].hostname)})

InitBackground ==
  /\ InitScoringVars
  /\ InitListVars
  /\ InitPageVars
  /\ InitBackgroundVars
  /\ InitCallVars

NextBackground ==
  \/ ListMessage
  \/ AddFirstCallback
  \/ AddSecondCallback
  \/ RemoveCallback

SpecBackground == InitBackground /\ [][NextBackground]_vars

\* C18: whatever the interleaving of the four list-message handlers, no
\* hostname is in both stored lists, in any intermediate or final state.
C18_StoredListsDisjoint == storedAllow \cap storedBlock = {}

(***************************************************************************)
(* The order of the findings in _results                                   *)
(***************************************************************************)
\* C19: in every assessment held in _results the findings are in the order
\* critical, high, medium, low, also after addSocialFindings appended
\* social findings and after _analyze re-attached the preserved ones.
C19_FindingsSortedBySeverity ==
  \A i, j \in 1..Len(results.findings) :
    i < j => severityOrder(results.findings[i].severity)
               <= severityOrder(results.findings[j].severity)

(***************************************************************************)
(* addSocialFindings on the assessments _analyze() stores                  *)
(***************************************************************************)
\* the assessment _analyze() stores when the first k detectors return the
\* score sc, the first of them with the findings fs, and nothing was merged
\* before
StoredAssessment(k, sc, fs) ==
  LET Flagged(agg) ==
        [level |-> agg.level, score |-> agg.score, summary |-> agg.summary,
         findings |-> agg.findings,
         allowlisted |-> FALSE, blocklisted |-> FALSE]
  IN  Flagged(aggregate([d \in DetectorNames |->
                           IF \E i \in 1..k : DETECTORS[i] = d
                           THEN [score |-> sc,
                                 findings |-> IF DETECTORS[1] = d THEN fs
                                              ELSE <<>>]
                           ELSE NoOutput]))

InitMerge ==
  /\ \E k \in 1..Len(DETECTORS), sc \in Scores \ {0}, fs \in FindingSamples,
        batch \in SocialBatches \ {<<>>} :
       callIn = [fn |-> "addSocialFindings",
                 arg |-> [results |-> StoredAssessment(k, sc, fs),
                          findings |-> batch]]
  /\ callOut = [fn |-> "none"]
  /\ InitScoringVars
  /\ InitListVars
  /\ InitPageVars
  /\ InitBackgroundVars

\* addSocialFindings(findings) with the assessment in _results
AddSocialFindingsCall ==
  /\ callOut.fn = "none"
  /\ callOut' = [fn |-> callIn.fn,
                 value |-> MergeSocial(callIn.arg.results,
                                       callIn.arg.findings)]
  /\ UNCHANGED <<callIn, scoringVars, listVars, pageVars, backgroundVars>>

SpecMerge == InitMerge /\ [][AddSocialFindingsCall]_vars

\* safe < caution < warning < danger
LevelRank(level) ==
  IF level = "safe" THEN 0 ELSE IF level = "caution" THEN 1
  ELSE IF level = "warning" THEN 2 ELSE 3

\* C20: addSocialFindings never lowers the threat level: after a merge of
\* a non-empty batch the level is at least the level before, and so is the
\* score.
C20_MergeNeverLowers ==
  callOut.fn = "addSocialFindings" =>
    /\ LevelRank(callOut.value.level) >= LevelRank(callIn.arg.results.level)
    /\ callOut.value.score >= callIn.arg.results.score

(***************************************************************************)
\* C21: whenever _results is non-null, its score is within 0..100 and its
\* level is the band of that score under the aggregator's thresholds (safe
\* up to 15, caution 16..40, warning 41..65, danger from 66), whether
\* aggregate, the list shortcut or a social-findings merge produced it.
C21_LevelIsBandOfScore ==
  results # NoResults =>
    /\ results.score \in 0..100
    /\ results.level = BandOf(results.score)

(***************************************************************************)
(* The content script on a page that has finished loading and no longer    *)
(* changes: only ScAIm's own callbacks and timers run                      *)
(***************************************************************************)
\* the posts of a page: the first k post elements, each short or long,
\* clean or a pitch
QuietPages ==
  UNION {[PostIds -> {NoPost} \cup
                     [len : TextLengths, sample : PostSamples]]}
        \ {page \in [PostIds -> {NoPost} \cup
                                 [len : TextLengths, sample : PostSamples]] :
             \E p, q \in PostIds : p < q /\ page[p] = NoPost
                                         /\ page[q] # NoPost}

\* as Init, on a page whose posts are all there when the script starts
InitQuiet ==
  /\ InitScoringVars
  /\ InitCallVars
  /\ InitBackgroundVars
  /\ lastOp = [op |-> "none", hostname |-> "", afterAllow |-> FALSE]
  /\ \E lists \in StoredLists :
       /\ storageKeys = lists.keys
       /\ storedAllow = lists.allow
       /\ storedBlock = lists.block
  /\ \E en \in BOOLEAN, mode \in NotificationModes, page \in QuietPages :
       Holds(run([Constructed EXCEPT !.enabled = en,
                                     !.notificationMode = mode,
                                     !.posts = page,
                                     !.delayedTimers = {4000, 8000}]))

NextQuiet ==
  \/ EnabledCallback
  \/ ListsCallback
  \/ NotificationModeCallback
  \/ DelayedTimer4000
  \/ DelayedTimer8000
  \/ ScanTimer
  \/ ObserverTimer
  \/ DebounceTimer
  \/ AutoHideTimer
  \/ RemoveTimer

\* Every storage callback is delivered and every timer set fires.  For the
\* handlers that run an analysis or a post scan the condition is written
\* with the handler's own guard in place of ENABLED: always eventually the
\* handler is not pending, or always eventually it runs.
SpecQuiet ==
  /\ InitQuiet
  /\ [][NextQuiet]_vars
  /\ \/ []<>~(storageQ # <<>> /\ NextCall.kind = "enabled")
     \/ []<><<EnabledCallback>>_vars
  /\ \/ []<>~(storageQ # <<>> /\ NextCall.kind = "lists")
     \/ []<><<ListsCallback>>_vars
  /\ \/ []<>~(storageQ # <<>> /\ NextCall.kind = "notificationMode")
     \/ []<><<NotificationModeCallback>>_vars
  /\ \/ []<>(delayedTimers # {8000})
     \/ []<><<DelayedTimer8000>>_vars
  /\ \/ []<>(scanTimers = 0)
     \/ []<><<ScanTimer>>_vars
  /\ \/ []<>~observerTimer
     \/ []<><<ObserverTimer>>_vars
  /\ WF_vars(DelayedTimer4000)
  /\ WF_vars(DebounceTimer)
  /\ WF_vars(AutoHideTimer)
  /\ WF_vars(RemoveTimer)

\* C23: once the host page no longer mutates the DOM and the URL no longer
\* changes, the analyzer eventually stops scheduling analysis passes:
\* from some point on no rerun() is pending, so ScAIm's own banner and
\* post markers do not keep a cycle of rerun, banner removal, analysis and
\* banner display going.
C23_EventuallyNoRerunPending == <>[](debounceTimer = "none")

(***************************************************************************)
(* The user at the banner and the popup: Trust and Dismiss clicks, the     *)
(* popup's list and mode messages                                          *)
(*                                                                         *)
(* A chrome.storage.local.set takes effect when it is called.  The         *)
(* background's SCAIM_ALLOWLIST_ADD handler, taken step by step in         *)
(* SpecBackground, is one step here: its storage write and the SCAIM_RERUN *)
(* it sends to the tab.                                                    *)
(***************************************************************************)
\* DomainLists.addToAllowlist and addToBlocklist on the page, up to the
\* call of _persist
pageAddToAllowlist(S, h0) ==
  LET hostname == toLowerCase(h0)
  IN  [S EXCEPT !.userAllowlist = @ \cup {hostname},
                !.userBlocklist = @ \ {hostname}]

pageAddToBlocklist(S, h0) ==
  LET hostname == toLowerCase(h0)
  IN  [S EXCEPT !.userBlocklist = @ \cup {hostname},
                !.userAllowlist = @ \ {hostname}]

\* ScaimBanner._removeTimer = setTimeout(() => this.remove(), 400) with no
\* clearTimeout before it: a remove timer still pending runs on, unheld
setRemoveTimer(S) ==
  [S EXCEPT !.orphanTimers = @ + (IF S.removeTimer = "remove" THEN 1 ELSE 0),
            !.removeTimer = "remove"]

\* the full banner's "Trust this site" button
trustBtn(S) ==
  setRemoveTimer([pageAddToAllowlist(S, PageHost) EXCEPT
                    !.rerunMessages = @ + 1,
                    !.banner.visible = FALSE])

\* the full banner's "Dismiss" button
dismissBtn(S) ==
  setRemoveTimer([S EXCEPT !.banner.visible = FALSE,
                           !.dismissedUrls = @ \cup {S.href}])

\* the lite banner's dismiss button: clearTimeout first
liteDismissBtn(S) ==
  [S EXCEPT !.banner.visible = FALSE,
            !.dismissedUrls = @ \cup {S.href},
            !.removeTimer = "remove"]

\* onMessage SCAIM_MODE_CHANGED
modeChanged(S, mode) ==
  IF mode = "silent" THEN remove(S)
  ELSE IF S.results # NoResults /\ S.results.level # "safe"
  THEN _showBannerIfAllowed(remove(S))
  ELSE S

\* the handler's result becomes the next state, and _persist has written
\* the page's lists to storage
CommitPersisted(result) ==
  \E S \in {Renumbered(result)} :
    /\ BecomesPage(S)
    /\ _persist(S.userAllowlist, S.userBlocklist)
    /\ UNCHANGED <<scoringVars, lastOp, callVars, backgroundVars>>

TrustClick ==
  /\ banner.kind = "full"
  /\ CommitPersisted(trustBtn(Cur))

DismissClick ==
  /\ banner.kind = "full"
  /\ Commit(dismissBtn(Cur))

LiteDismissClick ==
  /\ banner.kind = "lite"
  /\ Commit(liteDismissBtn(Cur))

\* a 400 ms remove timer that _removeTimer no longer holds
OrphanTimer ==
  /\ orphanTimers > 0
  /\ Commit(remove([Cur EXCEPT !.orphanTimers = @ - 1]))

\* the background has handled the banner's SCAIM_ALLOWLIST_ADD: the
\* hostname is on the stored allowlist and off the stored blocklist, and
\* its SCAIM_RERUN reaches the page
BackgroundRerun ==
  /\ rerunMessages > 0
  /\ \E S \in {Renumbered(rerun([Cur EXCEPT !.rerunMessages = @ - 1]))} :
       /\ BecomesPage(S)
       /\ storageKeys' = storageKeys \cup {"scaim_allowlist", "scaim_blocklist"}
       /\ storedAllow' = Stored("scaim_allowlist") \cup {toLowerCase(PageHost)}
       /\ storedBlock' = Stored("scaim_blocklist") \ {toLowerCase(PageHost)}
       /\ UNCHANGED <<scoringVars, lastOp, callVars, backgroundVars>>

\* onMessage SCAIM_ALLOWLIST_ADD, sent by the popup's Trust Site button for
\* the page's hostname: addToAllowlist, whose promise resolves in the
\* callback of _persist's storage call
MsgAllowlistAdd ==
  /\ events < MaxEvents
  /\ CommitPersisted([pageAddToAllowlist(Event, PageHost) EXCEPT
                        !.storageQ = Append(@, Get("persisted"))])

\* onMessage SCAIM_BLOCKLIST_ADD, sent by the popup's Block Site button
MsgBlocklistAdd ==
  /\ events < MaxEvents
  /\ CommitPersisted([pageAddToBlocklist(Event, PageHost) EXCEPT
                        !.storageQ = Append(@, Get("persisted"))])

\* .then(() => ScaimAnalyzer.rerun()) of the two list messages
PersistedCallback ==
  /\ storageQ # <<>>
  /\ NextCall.kind = "persisted"
  /\ Commit(rerun(Dequeued))

\* the popup's mode buttons: the mode is stored, then SCAIM_MODE_CHANGED
\* reaches the page
MsgModeChanged ==
  /\ events < MaxEvents
  /\ \E mode \in {"full", "lite", "silent"} :
       Commit(modeChanged([Event EXCEPT !.notificationMode = mode], mode))

\* the state once the content script's top level has run, with the
\* extension enabled, banners not silenced and nothing on the stored lists
InitUser ==
  /\ InitScoringVars
  /\ InitCallVars
  /\ InitBackgroundVars
  /\ lastOp = [op |-> "none", hostname |-> "", afterAllow |-> FALSE]
  /\ storageKeys = {}
  /\ storedAllow = {}
  /\ storedBlock = {}
  /\ \E mode \in {"", "lite"} :
       Holds(run([Constructed EXCEPT !.notificationMode = mode,
                                     !.delayedTimers = {4000, 8000}]))

(***************************************************************************)
(* The user dismisses banners while the page navigates and the popup       *)
(* changes the notification mode                                           *)
(***************************************************************************)
NextDismiss ==
  \/ EnabledCallback
  \/ ListsCallback
  \/ NotificationModeCallback
  \/ DelayedTimer4000
  \/ DelayedTimer8000
  \/ ScanTimer
  \/ DebounceTimer
  \/ UrlPoll
  \/ Navigate
  \/ AutoHideTimer
  \/ RemoveTimer
  \/ DismissClick
  \/ LiteDismissClick
  \/ OrphanTimer
  \/ MsgModeChanged

SpecDismiss == InitUser /\ [][NextDismiss]_vars

\* a banner is in the document and has not been slid away
Displayed == banner.kind # "none" /\ banner.visible

\* C25: once the banner was dismissed at a URL no banner is displayed while
\* the location is that URL, and a 400 ms remove timer never removes a
\* banner that was shown after the timer was scheduled
C25_DismissedStaysHidden ==
  /\ [](href \in dismissedUrls => ~Displayed)
  /\ [][~(/\ orphanTimers' < orphanTimers
          /\ banner.kind # "none"
          /\ banner.late
          /\ banner'.kind = "none")]_vars

(***************************************************************************)
(* The user trusts the site, from the banner or from the popup, on a page  *)
(* whose feed keeps growing                                                *)
(***************************************************************************)
NextTrust ==
  \/ EnabledCallback
  \/ ListsCallback
  \/ NotificationModeCallback
  \/ DelayedTimer4000
  \/ DelayedTimer8000
  \/ ScanTimer
  \/ ObserverTimer
  \/ DebounceTimer
  \/ PostAppears
  \/ AutoHideTimer
  \/ RemoveTimer
  \/ TrustClick
  \/ BackgroundRerun
  \/ MsgAllowlistAdd
  \/ PersistedCallback

SpecTrust == InitUser /\ [][NextTrust]_vars

\* C22: while the page's hostname is on the allowlist, an assessment marked
\* allowlisted is safe with score 0 and no findings, and no banner is
\* displayed
C22_TrustedStaysSafe ==
  (/\ results # NoResults
   /\ results.allowlisted
   /\ toLowerCase(PageHost) \in userAllowlist)
    => /\ results.level = "safe"
       /\ results.score = 0
       /\ results.findings = <<>>
       /\ ~Displayed

(***************************************************************************)
(* One tab's DomainLists beside the other writers of the stored lists      *)
(*                                                                         *)
(* The tab's object starts empty and unloaded while chrome.storage.local   *)
(* holds the lists of earlier sessions.  init() runs only from             *)
(* _analyzeWithDomainCheck, so the list messages can reach addToAllowlist  *)
(* and addToBlocklist before it.  The background's handlers and the other  *)
(* tabs write the same two keys; the background's read-modify-write is one *)
(* step here (SpecBackground takes it apart).                              *)
(***************************************************************************)
\* the hostnames the tabs and the popup speak of
SharedHosts == {"example.com", "A.Example.com", "github.io"}

\* the lists an earlier session may have left in storage
SharedLists ==
  {lists \in [allow : SUBSET {toLowerCase(h) : h \in SharedHosts},
              block : SUBSET {toLowerCase(h) : h \in SharedHosts}] :
     lists.allow \cap lists.block = {}}

\* DomainLists.init: a key that storage holds replaces the in-memory set
DomainListsInit ==
  /\ ~loaded
  /\ userAllowlist' = (IF "scaim_allowlist" \in storageKeys
                       THEN storedAllow ELSE userAllowlist)
  /\ userBlocklist' = (IF "scaim_blocklist" \in storageKeys
                       THEN storedBlock ELSE userBlocklist)
  /\ loaded' = TRUE
  /\ lastOp' = Called("init", "")
  /\ UNCHANGED <<storageKeys, storedAllow, storedBlock, scoringVars,
                 pageVars, callVars, backgroundVars>>

\* the background's SCAIM_ALLOWLIST_ADD and SCAIM_BLOCKLIST_ADD handlers
BackgroundAdd ==
  \E h \in SharedHosts, type \in {"SCAIM_ALLOWLIST_ADD", "SCAIM_BLOCKLIST_ADD"} :
    LET hostname == toLowerCase(h)
    IN  /\ storageKeys' = storageKeys \cup {"scaim_allowlist", "scaim_blocklist"}
        /\ IF type = "SCAIM_ALLOWLIST_ADD"
           THEN /\ storedAllow' = Stored("scaim_allowlist") \cup {hostname}
                /\ storedBlock' = Stored("scaim_blocklist") \ {hostname}
                /\ lastOp' = Called("addToAllowlist", hostname)
           ELSE /\ storedBlock' = Stored("scaim_blocklist") \cup {hostname}
                /\ storedAllow' = Stored("scaim_allowlist") \ {hostname}
                /\ lastOp' = Called("addToBlocklist", hostname)
        /\ UNCHANGED <<userAllowlist, userBlocklist, loaded, scoringVars,
                       pageVars, callVars, backgroundVars>>

\* the background's SCAIM_ALLOWLIST_REMOVE and SCAIM_BLOCKLIST_REMOVE
\* handlers: the one key is read and written
BackgroundRemove ==
  \E h \in SharedHosts,
     type \in {"SCAIM_ALLOWLIST_REMOVE", "SCAIM_BLOCKLIST_REMOVE"} :
    LET hostname == toLowerCase(h)
    IN  /\ IF type = "SCAIM_ALLOWLIST_REMOVE"
           THEN /\ storageKeys' = storageKeys \cup {"scaim_allowlist"}
                /\ storedAllow' = Stored("scaim_allowlist") \ {hostname}
                /\ storedBlock' = storedBlock
                /\ lastOp' = Called("removeFromAllowlist", hostname)
           ELSE /\ storageKeys' = storageKeys \cup {"scaim_blocklist"}
                /\ storedBlock' = Stored("scaim_blocklist") \ {hostname}
                /\ storedAllow' = storedAllow
                /\ lastOp' = Called("removeFromBlocklist", hostname)
        /\ UNCHANGED <<userAllowlist, userBlocklist, loaded, scoringVars,
                       pageVars, callVars, backgroundVars>>

\* onMessage SCAIM_ALLOWLIST_ADD and SCAIM_BLOCKLIST_ADD in the tab, up to
\* the write of _persist
TabAllowlistAdd ==
  \E h \in SharedHosts :
    /\ addToAllowlist(h)
    /\ UNCHANGED <<loaded, scoringVars, pageVars, callVars, backgroundVars>>

TabBlocklistAdd ==
  \E h \in SharedHosts :
    /\ addToBlocklist(h)
    /\ UNCHANGED <<loaded, scoringVars, pageVars, callVars, backgroundVars>>

InitShared ==
  /\ InitScoringVars /\ InitPageVars /\ InitCallVars /\ InitBackgroundVars
  /\ userAllowlist = {}
  /\ userBlocklist = {}
  /\ loaded = FALSE
  /\ lastOp = [op |-> "none", hostname |-> "", afterAllow |-> FALSE]
  /\ \E lists \in SharedLists :
       /\ storageKeys = (IF lists.allow \cup lists.block = {} THEN {}
                         ELSE {"scaim_allowlist", "scaim_blocklist"})
       /\ storedAllow = lists.allow
       /\ storedBlock = lists.block

NextShared ==
  \/ DomainListsInit
  \/ TabAllowlistAdd
  \/ TabBlocklistAdd
  \/ BackgroundAdd
  \/ BackgroundRemove

SpecShared == InitShared /\ [][NextShared]_vars

\* C24: a stored hostname leaves its stored list only in a remove of that
\* hostname from the list or an add of that hostname to the other list
C24_StoredEntriesKept ==
  [][\A g \in {toLowerCase(h) : h \in SharedHosts} :
       /\ (g \in storedAllow /\ g \notin storedAllow') =>
            /\ lastOp'.hostname = g
            /\ lastOp'.op \in {"removeFromAllowlist", "addToBlocklist"}
       /\ (g \in storedBlock /\ g \notin storedBlock') =>
            /\ lastOp'.hostname = g
            /\ lastOp'.op \in {"removeFromBlocklist", "addToAllowlist"}]_vars

\* C26: once every scheduled scanAllPosts has run, a post that was met
\* again by a scan and whose text has the minimum length has been analysed
C26_GrownPostAnalysed ==
  (platform # "null" /\ ~observerTimer /\ scanTimers = 0) =>
    \A p \in skipped :
      posts[p].len >= (IF PlatformOf(platform).minTextLength # 0
                       THEN PlatformOf(platform).minTextLength
                       ELSE DefaultMinLen)
        => analysed[p] > 0

\* C27: while the stored enabled flag is false the page holds no assessment
\* and the background has been sent none
C27_DisabledScansNothing ==
  ~enabled => (results = NoResults /\ tabData = NoResults)

(***************************************************************************)
(* _checkCombinations on findings of mixed severity                        *)
(***************************************************************************)
\* findings one post may have before the combination step
MaxIndicators == 5

\* categories of post findings, four of them named by combination rules
IndicatorCategories ==
  {"MLM/Pyramid", "Income Claim", "DM Solicitation", "Fake Scarcity",
   "Clickbait"}

InitIndicators ==
  /\ \E len \in 0..MaxIndicators :
       \E cats \in [1..len -> IndicatorCategories],
          sevs \in [1..len -> {"low", "medium"}] :
          callIn = [fn |-> "_checkCombinations",
                    arg |-> [i \in 1..len |->
                               PatternFinding(sevs[i], cats[i])]]
  /\ callOut = [fn |-> "none"]
  /\ InitScoringVars
  /\ InitListVars
  /\ InitPageVars
  /\ InitBackgroundVars

NextIndicators == CheckCombinationsCall

SpecIndicators == InitIndicators /\ [][NextIndicators]_vars

\* the number of distinct categories among the low-severity findings of fs
LowCategories(fs) ==
  Cardinality({fs[i].category :
                 i \in {j \in 1..Len(fs) : fs[j].severity = "low"}})

\* the 'Multiple Indicators' findings of fs, in order
Indicators(fs) ==
  SelectSeq(fs, LAMBDA f : f.category = "Multiple Indicators")

\* C28: _checkCombinations appends no 'Multiple Indicators' finding when the
\* low-severity findings it was given have at most two distinct categories,
\* one of severity medium when they have three and one of severity high
\* when they have four or more; no 'Pattern Combination' finding it appends
\* is of low severity, so none is counted
C28_MultipleIndicators ==
  callOut.fn = "_checkCombinations" =>
    LET out == callOut.value
        n == LowCategories(callIn.arg)
        added == Indicators(out)
    IN  /\ Len(added) = (IF n >= 3 THEN 1 ELSE 0)
        /\ n = 3 => added[1].severity = "medium"
        /\ n >= 4 => added[1].severity = "high"
        /\ \A i \in 1..Len(out) :
             out[i].category = "Pattern Combination" => out[i].severity # "low"
        /\ LowCategories(SubSeq(out, 1, Len(out) - Len(added))) = n

\* three low-severity categories went in beside a medium income claim, a
\* combination rule fired and the medium 'Multiple Indicators' was appended
C28_Witness ==
  /\ callOut.fn = "_checkCombinations"
  /\ LowCategories(callIn.arg) = 3
  /\ Cardinality(Categories(callIn.arg)) = 4
  /\ Combinations(callOut.value) # <<>>
  /\ Len(Indicators(callOut.value)) = 1
  /\ Indicators(callOut.value)[1].severity = "medium"

(***************************************************************************)
(* RomanceFeeDetector._checkMilitaryRomance                                *)
(*                                                                         *)
(* The page text is given by the phrases it holds; each phrase is matched  *)
(* by one of the five militaryPatterns or by the money-request pattern,    *)
(* or by none.                                                             *)
(***************************************************************************)
\* militaryPatterns, by a phrase each one matches
militaryPatterns ==
  <<"deployed overseas", "military leave papers cost", "army officer",
    "united nations mission", "cannot access my bank from here">>

\* phrases the money-request pattern matches
MoneyPhrases == {"send money", "gift card"}

\* the texts a page may hold
MilitaryTexts ==
  SUBSET ({militaryPatterns[n] : n \in 1..Len(militaryPatterns)}
            \cup MoneyPhrases \cup {"i love you"})

_checkMilitaryRomance(pageText) ==
  LET matchCount ==
        Cardinality({n \in 1..Len(militaryPatterns) :
                       militaryPatterns[n] \in pageText})
      hasMoneyRequest == pageText \cap MoneyPhrases # {}
  IN  IF matchCount >= 2 /\ hasMoneyRequest
      THEN [score |-> 20,
            findings |-> <<[severity |-> "high",
                            category |-> "Military Romance Scam"]>>]
      ELSE IF matchCount >= 3
      THEN [score |-> 10,
            findings |-> <<[severity |-> "medium",
                            category |-> "Military Romance Pattern"]>>]
      ELSE [score |-> 0, findings |-> <<>>]

InitMilitary ==
  /\ \E pageText \in MilitaryTexts :
       callIn = [fn |-> "_checkMilitaryRomance", arg |-> pageText]
  /\ callOut = [fn |-> "none"]
  /\ InitScoringVars
  /\ InitListVars
  /\ InitPageVars
  /\ InitBackgroundVars

CheckMilitaryRomanceCall ==
  /\ callOut.fn = "none"
  /\ callOut' = [fn |-> callIn.fn, value |-> _checkMilitaryRomance(callIn.arg)]
  /\ UNCHANGED <<callIn, scoringVars, listVars, pageVars, backgroundVars>>

NextMilitary == CheckMilitaryRomanceCall

SpecMilitary == InitMilitary /\ [][NextMilitary]_vars

\* C29: on a text no money-request pattern matches, the military romance
\* check pushes no finding and returns 0
C29_MilitaryNeedsMoneyRequest ==
  (callOut.fn = "_checkMilitaryRomance" /\ callIn.arg \cap MoneyPhrases = {})
    => /\ callOut.value.findings = <<>>
       /\ callOut.value.score = 0

(***************************************************************************)
(* A page with several forms: the per-form sub-checks of the structural,   *)
(* phishing and fake e-commerce detectors                                  *)
(***************************************************************************)
\* forms a page may hold
MaxForms == 2

\* sensitiveFields: ssn, dob, passport, license, mother
SensitiveTypes == 5

\* forms of the page: sensitive is the number of sensitiveFields patterns
\* the names and placeholders of the form's inputs match
FormSamples ==
  [action : {a \in FormActions :
               \/ a.kind = "none"
               \/ a.kind = "absolute" /\ a.hostname = "evil.example"
                    /\ a.protocol = "http:" /\ a.port = ""},
   method : {"", "POST"}, hidden : {0, MaxHidden},
   password : BOOLEAN, email : {FALSE}, sensitive : {0, 2, SensitiveTypes}]

\* _checkSuspiciousCheckout: the body of forms.forEach
CheckCheckoutForm(form) ==
  IF form.sensitive >= 2
  THEN Found(25, "critical", "Excessive Data Collection")
  ELSE NoOutput

_checkSuspiciousCheckout(page) ==
  EachForm([n \in 1..Len(page.forms) |-> CheckCheckoutForm(page.forms[n])],
           Len(page.forms))

\* FakeEcommerceDetector.scan on a page whose prices, trust signals,
\* reviews and payment methods give nothing
FakeEcommerceScan(page) ==
  LET Capped(r) == [r EXCEPT !.score = Min(100, @)]
  IN  Capped(_checkSuspiciousCheckout(page))

InitForms ==
  /\ \E location \in PageLocations, len \in 0..MaxForms :
       \E forms \in [1..len -> FormSamples] :
          callIn = [fn |-> "scan",
                    arg |-> [location |-> location, forms |-> forms]]
  /\ callOut = [fn |-> "none"]
  /\ InitScoringVars
  /\ InitListVars
  /\ InitPageVars
  /\ InitBackgroundVars

\* the three detectors scan the page
ScanForms ==
  /\ callOut.fn = "none"
  /\ callOut' =
       [fn |-> callIn.fn,
        structural |-> StructuralScan(callIn.arg),
        phishing |-> PhishingScan(callIn.arg),
        fakeEcommerce |-> FakeEcommerceScan(callIn.arg),
        checks |-> [forms |-> _checkForms(callIn.arg).score,
                    loginForms |-> _checkLoginForms(callIn.arg).score,
                    checkout |-> _checkSuspiciousCheckout(callIn.arg).score]]
  /\ UNCHANGED <<callIn, scoringVars, listVars, pageVars, backgroundVars>>

NextForms == ScanForms

SpecForms == InitForms /\ [][NextForms]_vars

\* the most a sub-check returns for a page with one form
OneFormCeiling ==
  LET pages == {[location |-> location, forms |-> <<form>>] :
                  location \in PageLocations, form \in FormSamples}
      Most(scores) == CHOOSE m \in scores : \A x \in scores : x <= m
  IN  [forms |-> Most({_checkForms(page).score : page \in pages}),
       loginForms |-> Most({_checkLoginForms(page).score : page \in pages}),
       checkout |-> Most({_checkSuspiciousCheckout(page).score :
                            page \in pages})]

\* C30: every detector's score is in 0..100, and what a sub-check adds for
\* a page does not exceed what it can add for one form
C30_SubChecksCapped ==
  callOut.fn = "scan" =>
    /\ callOut.structural.score \in 0..100
    /\ callOut.phishing.score \in 0..100
    /\ callOut.fakeEcommerce.score \in 0..100
    /\ callOut.checks.forms <= OneFormCeiling.forms
    /\ callOut.checks.loginForms <= OneFormCeiling.loginForms
    /\ callOut.checks.checkout <= OneFormCeiling.checkout

====
